---- MODULE Spec2Model ----
(***************************************************************************)
(* CADToVectorGraphics: the render pipeline                                *)
(*   VirtualScene -> VirtualRenderer / Projector -> PlanarMeshRepresentation*)
(*   -> Image (SVG element tree).                                          *)
(*                                                                         *)
(* Conventions.  Python indices are 0-based and are kept 0-based in every  *)
(* value the program exposes (solid index, facet index, vertex id); a      *)
(* Python list or numpy row is a TLA+ sequence, so element k of the list   *)
(* is position k+1 of the sequence.  A numpy (R x N) matrix is the sequence*)
(* of its N columns.  Real numbers are exact; the fixtures are chosen so   *)
(* that every square root taken is the root of a perfect square.           *)
(***************************************************************************)
EXTENDS Integers, Sequences, FiniteSets, TLC

VARIABLES
    topologies,   \* heap of Topology objects: object id -> Topology
    scene,        \* VirtualScene: _camera, _part, _lights
    renderer,     \* VirtualRenderer: _projector, _facets, _edges, _coordinatesystem
    image,        \* Image: _lineStyles, _faceStyle, _boundingBox, ...
    ret,          \* the last API call and what it returned or raised
    edits,        \* the number of Topology.__setitem__ calls made so far
    loops         \* the client's loops over renderer._facets: what each was yielded

vars == <<topologies, scene, renderer, image, ret, edits, loops>>

\* Python's None, where the alternative is an object (a record here)
None == [py |-> "None"]

(***************************************************************************)
(* numpy helpers                                                           *)
(***************************************************************************)

\* the least / greatest element of a non-empty set of integers
Min(S) == CHOOSE x \in S : \A y \in S : x <= y
Max(S) == CHOOSE x \in S : \A y \in S : x >= y

Abs(x) == IF x < 0 THEN -x ELSE x

\* numpy.dot of two 3-vectors
Dot(a, b) == a[1] * b[1] + a[2] * b[2] + a[3] * b[3]

\* numpy.cross of two 3-vectors
Cross(a, b) ==
    << a[2] * b[3] - a[3] * b[2],
       a[3] * b[1] - a[1] * b[3],
       a[1] * b[2] - a[2] * b[1] >>

VecAdd(a, b) == [i \in 1..3 |-> a[i] + b[i]]
VecSub(a, b) == [i \in 1..3 |-> a[i] - b[i]]

\* numpy.sqrt on the squared norms the fixtures produce (perfect squares)
ISqrt(n) == CHOOSE r \in 0..n : r * r = n

\* numpy.linalg.norm of an integer 3-vector
Norm(v) == ISqrt(Dot(v, v))

\* the first n natural numbers as a Python range / list
Range(n) == [i \in 1..n |-> i - 1]

RECURSIVE Concat(_)
\* numpy.hstack: the concatenation of a sequence of column sequences
Concat(ss) == IF ss = <<>> THEN <<>> ELSE Head(ss) \o Concat(Tail(ss))

\* x in the sequence s
InSeq(x, s) == \E i \in 1..Len(s) : s[i] = x

\* the number of positions of s holding x
Count(x, s) == Cardinality({i \in 1..Len(s) : s[i] = x})

(***************************************************************************)
(* Exact real arithmetic: a real number that is not an integer by          *)
(* construction is a fraction [n, d] with d > 0, in lowest terms.          *)
(***************************************************************************)

RECURSIVE GCD(_, _)
GCD(a, b) == IF b = 0 THEN a ELSE GCD(b, a % b)

\* the fraction n/d (d # 0) in lowest terms
Frac(n, d) ==
    LET g == GCD(Abs(n), Abs(d))
        sgn == IF d < 0 THEN -1 ELSE 1
    IN  [n |-> sgn * (n \div g), d |-> sgn * (d \div g)]

Q(i) == [n |-> i, d |-> 1]
RAdd(a, b) == Frac(a.n * b.d + b.n * a.d, a.d * b.d)
RSub(a, b) == Frac(a.n * b.d - b.n * a.d, a.d * b.d)
RMul(a, b) == Frac(a.n * b.n, a.d * b.d)
RLess(a, b) == a.n * b.d < b.n * a.d
IsInt(a) == a.d = 1
RNeg(a) == Frac(- a.n, a.d)
RLeq(a, b) == a.n * b.d <= b.n * a.d

\* Python's int( x ) of a float: the whole part, towards zero
int(a) == IF a.n >= 0 THEN a.n \div a.d ELSE - ((- a.n) \div a.d)

RECURSIVE RPow(_, _)
\* a ** k for a whole exponent k >= 0 (numpy: 0 ** 0 = 1)
RPow(a, k) == IF k = 0 THEN Q(1) ELSE RMul(a, RPow(a, k - 1))

\* numpy.round of one number: to the nearest integer, a tie to the even one
RRound(a) ==
    LET fl   == a.n \div a.d
        twoR == 2 * (a.n - fl * a.d)
    IN  IF twoR < a.d THEN fl
        ELSE IF twoR > a.d THEN fl + 1
        ELSE IF fl % 2 = 0 THEN fl ELSE fl + 1

\* the dot product of two 3-vectors of fractions
RDot(a, b) == RAdd(RAdd(RMul(a[1], b[1]), RMul(a[2], b[2])), RMul(a[3], b[3]))

\* an integer vector as a vector of fractions
RVec(v) == [i \in 1..Len(v) |-> Q(v[i])]

(***************************************************************************)
(* util/geometry.py                                                        *)
(***************************************************************************)

\* the float nan, which is no number
nan == [float |-> "nan"]

\* numpy.isnan( x ) for one entry, a number or nan
isnan(x) == ToString(x) = ToString(nan)

\* normalize( matrix ): divide( matrix, norm( matrix ) ), for the axis-aligned
\* vectors a Camera is built from here; numpy's divide of 0 by the norm 0 warns
\* and yields nan, it does not raise
normalize(v) == [i \in 1..3 |-> IF Norm(v) = 0 THEN nan ELSE v[i] \div Norm(v)]

\* cNormalize on one column: the column over its norm, and the NaN of a
\* zero column (0/0) replaced by 0
cNormalizeColumn(v) ==
    IF Dot(v, v) = 0 THEN <<0, 0, 0>>
    ELSE [i \in 1..3 |-> v[i] \div Norm(v)]

\* cNormalize( matrix ), column by column
cNormalize(m) == [j \in 1..Len(m) |-> cNormalizeColumn(m[j])]

\* cNormalize on one column whose direction is not axis-aligned: the same
\* quotient, kept as fractions
cNormalizeColumnQ(v) ==
    IF Dot(v, v) = 0 THEN RVec(<<0, 0, 0>>)
    ELSE [i \in 1..3 |-> Frac(v[i], Norm(v))]

(***************************************************************************)
(* util/color.py, compose/components/representation/material.py            *)
(***************************************************************************)

\* RGBA( r, g, b, a = 255 )
RGBA(r, g, b, a) == [r |-> r, g |-> g, b |-> b, a |-> a]

\* RGBA.rgb()
rgb(color) == <<color.r, color.g, color.b>>

\* MaterialProperties( ka, kd, ks, alpha )
MaterialProperties(ka, kd, ks, alpha) == [ka |-> ka, kd |-> kd, ks |-> ks, alpha |-> alpha]

(***************************************************************************)
(* compose/components/representation/mesh.py                               *)
(***************************************************************************)

\* a dict as the sequence of its items in insertion order
DictItems(base, n) ==
    LET keys == SelectSeq(Range(Len(base)), LAMBDA k : Len(base[k + 1]) = n)
    IN  [i \in 1..Len(keys) |-> [key |-> keys[i], value |-> base[keys[i] + 1]]]

\* Topology( topology ): _base maps key k to topology[ k ] (position k+1 here);
\* _triangles and _quadrilaterals are the items of _base of length 3 and 4,
\* taken once, at construction
Topology(topology) ==
    [ base           |-> topology,
      triangles      |-> DictItems(topology, 3),
      quadrilaterals |-> DictItems(topology, 4) ]

\* Topology.__getitem__( key ) for an int key; KeyError is left to the caller
TopologyGetItem(topo, key) == topo.base[key + 1]

\* Topology.__setitem__( key, ids ) on _base alone: an existing key is
\* overwritten in place, the key len( _base ) is appended
TopologySetItem(topo, key, ids) ==
    [topo EXCEPT !.base =
        IF key < Len(topo.base)
        THEN [topo.base EXCEPT ![key + 1] = ids]
        ELSE Append(topo.base, ids)]

\* MeshModel._triangleCenters for one facet
triangleCenter(p, tri) ==
    LET s == VecAdd(VecAdd(p[tri[1] + 1], p[tri[2] + 1]), p[tri[3] + 1])
    IN  [i \in 1..3 |-> s[i] \div 3]

\* MeshModel._triangleNormals for one facet: cross( v1 - v0, v2 - v1 ), normalised
triangleNormal(p, tri) ==
    LET v0 == p[tri[1] + 1]
        v1 == p[tri[2] + 1]
        v2 == p[tri[3] + 1]
    IN  cNormalizeColumn(Cross(VecSub(v1, v0), VecSub(v2, v1)))

\* the value a dict (sequence of items) holds for key, or the default
ItemOr(items, key, default) ==
    IF \E i \in 1..Len(items) : items[i].key = key
    THEN (CHOOSE it \in {items[i] : i \in 1..Len(items)} : it.key = key).value
    ELSE default

\* MeshModel._calculateCenters: zeros( ( 3, nFaces ) ) plus the centres of the
\* triangles and of the quadrilaterals (mean of the sub-triangles 0,1,2 and 2,3,0)
calculateCenters(p, topo) ==
    [ f \in 1..Len(topo.base) |->
        LET tri  == ItemOr(topo.triangles, f - 1, <<>>)
            quad == ItemOr(topo.quadrilaterals, f - 1, <<>>)
        IN  IF tri # <<>> THEN triangleCenter(p, tri)
            ELSE IF quad # <<>>
            THEN LET a == triangleCenter(p, <<quad[1], quad[2], quad[3]>>)
                     b == triangleCenter(p, <<quad[3], quad[4], quad[1]>>)
                 IN  [i \in 1..3 |-> (a[i] + b[i]) \div 2]
            ELSE <<0, 0, 0>> ]

\* MeshModel._calculateNormals: zeros( ( 3, nFaces ) ) plus the normals of the
\* triangles and, for a quadrilateral, the normal of its sub-triangle 0,1,2
\* (the continuation line "+ self._triangleNormals( ... [ 0, 2, 3 ] )" is a
\* statement of its own and adds nothing); cNormalize over the whole table
calculateNormals(p, topo) ==
    cNormalize(
        [ f \in 1..Len(topo.base) |->
            LET tri  == ItemOr(topo.triangles, f - 1, <<>>)
                quad == ItemOr(topo.quadrilaterals, f - 1, <<>>)
            IN  IF tri # <<>> THEN triangleNormal(p, tri)
                ELSE IF quad # <<>>
                THEN triangleNormal(p, <<quad[1], quad[2], quad[3]>>)
                ELSE <<0, 0, 0>> ])

\* array( rows ): a two-dimensional numpy array of shape ( rows, columns )
array(rows) ==
    [ type  |-> "ndarray",
      shape |-> <<Len(rows), IF Len(rows) = 0 THEN 0 ELSE Len(rows[1])>>,
      rows  |-> rows ]

\* ndarray.transpose() of an array with at least one row
transpose(a) ==
    array([j \in 1..a.shape[2] |-> [i \in 1..a.shape[1] |-> a.rows[i][j]]])

\* len( geometry ): the items of a list, the first dimension of an ndarray
len(geometry) ==
    IF geometry.type = "ndarray" THEN geometry.shape[1] ELSE Len(geometry.items)

\* type( geometry[ 0 ] ): a row of an ndarray is an ndarray
typeOfFirst(geometry) ==
    IF geometry.type = "ndarray" THEN "ndarray" ELSE geometry.of

\* Geometry( geometry ): the point container _base, or the Exception raised
Geometry(geometry) ==
    IF len(geometry) = 0 THEN [raises |-> "Exception"]
    ELSE IF typeOfFirst(geometry) = "tuple"
    THEN [raises |-> "", value |-> array(geometry.items)]
    ELSE IF typeOfFirst(geometry) = "VectorBase"
    THEN [raises |-> "", value |-> transpose(array(geometry.items))]
    ELSE IF geometry.type = "ndarray"
    THEN [raises |-> "", value |-> geometry]
    ELSE [raises |-> "Exception"]

\* Geometry.size: the number of columns of _base
GeometrySize(base) == base.shape[2]

\* Mesh( geometry, topology ) held by reference: the Topology lives in the heap
Mesh(geometry, topologyId) == [geometry |-> geometry, topology |-> topologyId]

\* MeshSize: the value of each member
MeshSizeValue(name) ==
    CASE name = "DEFAULT" -> 1
      [] name = "BULKY"   -> 5
      [] name = "COARSE"  -> 10

\* MeshModelGenerator._determineMimMaxElementSize( size ) for a model with the
\* bounding box lengths `lengths`: a tuple is taken as it is; DEFAULT reads the
\* area of the kernel object, which the kernel answers with a number or not
determineMimMaxElementSize(meshSize, lengths, kernel) ==
    LET shortest == Min({lengths[i] : i \in 1..3})
        longest  == Max({lengths[i] : i \in 1..3})
    IN  IF meshSize.type = "tuple"
        THEN [raises |-> "", value |-> <<Q(meshSize.value[1]), Q(meshSize.value[2])>>]
        ELSE IF meshSize.name = "DEFAULT"
        THEN (IF kernel.area = None
              THEN [raises |-> "Exception"]
              ELSE [raises |-> "",
                    value |-> <<Frac(kernel.area.number, longest),
                                Frac(kernel.area.number, shortest)>>])
        ELSE [raises |-> "",
              value |-> <<Frac(shortest * 4, MeshSizeValue(meshSize.name) * 3),
                          Frac(longest * 4, MeshSizeValue(meshSize.name) * 5)>>]

\* MeshModelGenerator.generate( meshSize ) of a model of class `cad`: the mesher's
\* mesh; when the mesher raises, self._model.tessellate( 10 ), a method a
\* Solid has and a CADModel has not
generate(cad, meshSize, lengths, kernel) ==
    LET sizes == determineMimMaxElementSize(meshSize, lengths, kernel)
    IN  IF sizes.raises # "" THEN [raises |-> sizes.raises]
        ELSE IF kernel.mesher # None
        THEN [raises |-> "", value |-> kernel.mesher]
        ELSE IF cad = "CADModel"
        THEN [raises |-> "AttributeError"]
        ELSE [raises |-> "", value |-> kernel.tessellate[10]]

\* the calls generate( meshSize ) makes to start and to end the mesher, in
\* order: _initializeMesher() is its first statement; the element sizes are
\* determined before the try block, so an exception there leaves generate at
\* once; _toMesh() finalizes after the mesh is read; the except branch
\* finalizes when _generate() or _toMesh() raised before that
mesherCalls(meshSize, lengths, kernel) ==
    LET sizes == determineMimMaxElementSize(meshSize, lengths, kernel)
    IN  <<"initialize">> \o
        (IF sizes.raises # "" THEN <<>>
         ELSE IF kernel.mesher # None THEN <<"finalize">>
         ELSE <<"finalize">>)

\* MeshModel( mesh ): the centres and normals are computed once, here
MeshModel(mesh, topo) ==
    [ mesh    |-> mesh,
      centers |-> calculateCenters(mesh.geometry, topo),
      normals |-> calculateNormals(mesh.geometry, topo) ]

(***************************************************************************)
(* compose/components/bind.py, view.py, illuminate.py, compose.py          *)
(***************************************************************************)

\* SolidRepresentation with its mesh, colour and material set
SolidRepresentation(mesh, color, material) ==
    [mesh |-> mesh, color |-> color, material |-> material]

\* Camera( view )
Camera(view) ==
    [ position   |-> <<0, 0, 0>>,
      view       |-> normalize(view),
      horizontal |-> normalize(<<0, 0, 0>>) ]

\* PartRepresentation._assertIsValidIndex( index ) raises
assertIsValidIndexRaises(part, index) ==
    index > Len(part) - 1 \/ index + Len(part) < 0

\* a list index that addresses the first solid whatever the index
listPositionFirst(part, index) == 1

\* self._solids[ index ]: the position a Python list index addresses, a
\* negative index counting from the end
listPosition(part, index) == IF index < 0 THEN index + Len(part) + 1 ELSE index + 1

\* LightSource( position ): white unless set otherwise
LightSource(position) == [position |-> position, color |-> RGBA(255, 255, 255, 255)]

\* VirtualScene( part ): no camera, no lights
VirtualScene(part) == [camera |-> None, part |-> part, lights |-> <<>>]

(***************************************************************************)
(* render/components/geometry.py                                           *)
(***************************************************************************)

\* a numpy array held where None is the alternative
ndarray(columns) == [columns |-> columns]

\* EdgeRepresentationType
VISIBLEOUTLINE == "VISIBLEOUTLINE"
HIDDENSMOOTHWIRE == "HIDDENSMOOTHWIRE"
VISIBLESMOOTHWIRE == "VISIBLESMOOTHWIRE"
HIDDENSHARPWIRE == "HIDDENSHARPWIRE"
VISIBLESHARPWIRE == "VISIBLESHARPWIRE"

EdgeRepresentationType ==
    {VISIBLEOUTLINE, HIDDENSMOOTHWIRE, VISIBLESMOOTHWIRE, HIDDENSHARPWIRE, VISIBLESHARPWIRE}

\* PlanarMeshRepresentation( geometry, topology ): the topologies are the
\* Topology objects handed in (heap ids), not copies; _index does not exist
\* before the first __iter__ (-1 here)
PlanarMeshRepresentation(geometry, topology) ==
    [ geometry |-> geometry,
      topology |-> topology,
      visible  |-> None,
      colors   |-> <<>>,
      index    |-> -1 ]

\* PlanarFacet( points, color )
PlanarFacet(points, color) == [points |-> points, color |-> color]

\* PlanarEdgesRepresentation( edges, edgeType ): the wires are the sampled
\* curves of the HLR kernel's edges, one per edge
PlanarEdgesRepresentation(wires, edgeType) == [wires |-> wires, type |-> edgeType]

\* PlanarCoordinateSystemRepresentation( x, y, z ) with its anchor
PlanarCoordinateSystemRepresentation(x, y, z, anchor) ==
    [x |-> x, y |-> y, z |-> z, anchor |-> anchor]

(***************************************************************************)
(* render/components/project.py                                            *)
(***************************************************************************)

\* OCPAxis( position, direction ): the X direction the kernel derives from the
\* main direction, and Y = direction x X
OCPAxis(position, direction) ==
    LET A == direction[1]
        B == direction[2]
        C == direction[3]
        X == IF Abs(B) <= Abs(A) /\ Abs(B) <= Abs(C)
             THEN (IF Abs(A) > Abs(C) THEN <<-C, 0, A>> ELSE <<C, 0, -A>>)
             ELSE IF Abs(A) <= Abs(B) /\ Abs(A) <= Abs(C)
             THEN (IF Abs(B) > Abs(C) THEN <<0, -C, B>> ELSE <<0, C, -B>>)
             ELSE (IF Abs(A) > Abs(B) THEN <<-B, A, 0>> ELSE <<B, -A, 0>>)
    IN  [origin |-> position, x |-> cNormalizeColumn(X),
         y |-> Cross(direction, cNormalizeColumn(X))]

\* Projector( camera ): keeps the Camera it was given and the kernel projector
\* built from that camera's position and view
Projector(camera) ==
    [camera |-> camera, base |-> OCPAxis(camera.position, camera.view)]

\* Projector._uvCoordinatesUsingProjector( points ): each 3D column projected
\* orthographically on the plane of the projector
uvCoordinatesUsingProjector(projector, points) ==
    [ j \in 1..Len(points) |->
        << Dot(VecSub(points[j], projector.base.origin), projector.base.x),
           Dot(VecSub(points[j], projector.base.origin), projector.base.y) >> ]

\* numpy.argwhere( m >= 0 ).flatten() for a ( 1 x F ) matrix m (its one row is
\* given): argwhere yields one ( row, column ) pair per entry >= 0, so the
\* flattened result is 0, j1, 0, j2, ...
argwhereFlatten(row) ==
    LET cols == SelectSeq(Range(Len(row)), LAMBDA j : row[j + 1] >= 0)
    IN  Concat([k \in 1..Len(cols) |-> <<0, cols[k]>>])

\* one solid of Projector._removeAdvertedFaces: ids = list( keys ),
\* scalarProd = transpose( view ) @ normals[ :, ids ]  (a 1 x F matrix),
\* ids[ argwhere( scalarProd >= 0 ).flatten() ]
removeAdvertedFacesOfSolid(view, solid) ==
    LET ids        == Range(Len(topologies[solid.mesh.mesh.topology].base))
        scalarProd == [j \in 1..Len(ids) |-> Dot(view, solid.mesh.normals[ids[j] + 1])]
        where      == argwhereFlatten(scalarProd)
    IN  [k \in 1..Len(where) |-> ids[where[k] + 1]]

\* normals[ :, ids ] raises IndexError when a key of the topology is no column
\* of the normals table, or when the topology is empty (a float index array)
removeAdvertedFacesRaises(part) ==
    \E s \in 1..Len(part) :
        LET F == Len(topologies[part[s].mesh.mesh.topology].base)
        IN  F = 0 \/ F > Len(part[s].mesh.normals)

\* Projector._removeAdvertedFaces( part ): the list of the solids' id arrays
removeAdvertedFaces(projector, part) ==
    [s \in 1..Len(part) |-> removeAdvertedFacesOfSolid(projector.camera.view, part[s])]

\* the ( 3 x K ) stack of Projector._sortFacesByPosition: per kept id a column
\* ( view . center, solid index, id ), solids concatenated in order
directionalDistancesStack(projector, idsDict, part) ==
    Concat([ s \in 1..Len(part) |->
        [ k \in 1..Len(idsDict[s]) |->
            [ d     |-> Dot(projector.camera.view, part[s].mesh.centers[idsDict[s][k] + 1]),
              solid |-> s - 1,
              facet |-> idsDict[s][k] ] ] ])

\* s without its first occurrence of x
RemoveFirst(s, x) ==
    LET i == CHOOSE i \in 1..Len(s) : s[i] = x /\ \A j \in 1..(i - 1) : s[j] # x
    IN  SubSeq(s, 1, i - 1) \o SubSeq(s, i + 1, Len(s))

RECURSIVE argsortOrders(_)
\* stack[ :, argsort( stack[ 0, : ] ) ]: numpy's default argsort (quicksort) is
\* not stable, so columns of equal d may come out in any order
argsortOrders(stack) ==
    IF stack = <<>> THEN {<<>>}
    ELSE LET cols == {stack[i] : i \in 1..Len(stack)}
             mins == {c \in cols : \A o \in cols : c.d <= o.d}
         IN  UNION { { <<c>> \o rest : rest \in argsortOrders(RemoveFirst(stack, c)) }
                     : c \in mins }

\* the two rows ( solid index, facet index ) a sorted stack is returned as
idRows(sorted) == [i \in 1..Len(sorted) |-> <<sorted[i].solid, sorted[i].facet>>]

\* _sortFacesByPosition without its argsort: the columns in stack order
sortFacesByPositionUnsorted(projector, idsDict, part) ==
    { idRows(directionalDistancesStack(projector, idsDict, part)) }

\* Projector._sortFacesByPosition( idsDict, part ): every result the sort can give
sortFacesByPosition(projector, idsDict, part) ==
    { idRows(o) : o \in argsortOrders(directionalDistancesStack(projector, idsDict, part)) }

\* Projector.determineVisibleFaces( part ): every ( 2 x N ) result it can return
determineVisibleFaces(projector, part) ==
    sortFacesByPosition(projector, removeAdvertedFaces(projector, part), part)

\* the maximum with 0 that where( x < 0., 0., x ) takes
ClampBelow(x) == IF RLess(x, Q(0)) THEN Q(0) ELSE x

\* what one light adds to the ( r, g, b ) of one facet in
\* Projector._determineFaceColors
lightTerm(view, solid, f, source, nSources) ==
    LET normal    == RVec(solid.mesh.normals[f])
        center    == solid.mesh.centers[f]
        viewDirection == RVec([i \in 1..3 |-> -view[i]])
        ambient   == rgb(solid.color)
        diffuse   == rgb(source.color)
        specular  == rgb(source.color)
        lightSourceDirections == cNormalizeColumnQ(VecSub(source.position, center))
        lightSourceDirectionsCos == ClampBelow(RDot(lightSourceDirections, normal))
        reflectionDirections ==
            [i \in 1..3 |-> RSub(RMul(RMul(Q(2), lightSourceDirectionsCos), normal[i]),
                                 lightSourceDirections[i])]
        reflectionDirectionsCos == ClampBelow(RDot(reflectionDirections, viewDirection))
    IN  [ c \in 1..3 |->
            LET ambientTerm  == RMul(RMul(Frac(1, nSources), Q(ambient[c])), solid.material.ka)
                diffuseTerm  == RMul(RMul(solid.material.kd, lightSourceDirectionsCos), Q(diffuse[c]))
                specularRaw  == RMul(RMul(solid.material.ks,
                                          RPow(reflectionDirectionsCos, solid.material.alpha)),
                                     Q(specular[c]))
                specularTerm == IF RLess(diffuseTerm, Q(0)) THEN Q(0) ELSE specularRaw
            IN  RAdd(RAdd(ambientTerm, diffuseTerm), specularTerm) ]

RECURSIVE sumLights(_, _, _, _, _)
\* the accumulation colors[ 0 : 3, : ] += ... over the lights, for one facet
sumLights(view, solid, f, lights, k) ==
    IF k = 0 THEN RVec(<<0, 0, 0>>)
    ELSE LET acc == sumLights(view, solid, f, lights, k - 1)
             t   == lightTerm(view, solid, f, lights[k], Len(lights))
         IN  [c \in 1..3 |-> RAdd(acc[c], t[c])]

\* round( where( colors > 255, 255, colors ) ) on one entry
clampAndRound(x) == IF RLess(Q(255), x) THEN 255 ELSE RRound(x)

\* Projector._determineFaceColors( solid, lights ) without a colour table:
\* with no light the ( 3 x N ) tiled base rgb is returned as it is; otherwise a
\* ( 4 x N ) matrix, row 3 the base alpha, all of it cut at 255 and rounded
determineFaceColorsOfSolid(projector, solid, lights) ==
    LET nNormals == Len(solid.mesh.normals)
        nSources == Len(lights)
    IN  IF nSources = 0
        THEN [f \in 1..nNormals |-> rgb(solid.color)]
        ELSE [ f \in 1..nNormals |->
                LET acc == sumLights(projector.camera.view, solid, f, lights, nSources)
                IN  << clampAndRound(acc[1]), clampAndRound(acc[2]), clampAndRound(acc[3]),
                       clampAndRound(Q(solid.color.a)) >> ]

\* Projector.determineFaceColors( part, lights ): one matrix per solid
determineFaceColors(projector, part, lights) ==
    [s \in 1..Len(part) |-> determineFaceColorsOfSolid(projector, part[s], lights)]

\* Projector.projectFacets( part ): the projected geometry of every solid and
\* the solids' own Topology objects
projectFacets(projector, part) ==
    PlanarMeshRepresentation(
        [s \in 1..Len(part) |-> uvCoordinatesUsingProjector(projector, part[s].mesh.mesh.geometry)],
        [s \in 1..Len(part) |-> part[s].mesh.mesh.topology])

\* the order of the dict edgesForEdgeType in Projector.projectCurvesAndEdges
edgesForEdgeTypeOrder ==
    <<VISIBLEOUTLINE, HIDDENSMOOTHWIRE, HIDDENSHARPWIRE, VISIBLESMOOTHWIRE, VISIBLESHARPWIRE>>

\* the dict with two of the kernel's compounds exchanged
edgesForEdgeTypeExchanged(filter) ==
    [ t \in EdgeRepresentationType |->
        CASE t = VISIBLEOUTLINE    -> filter.OutLineVCompound
          [] t = HIDDENSMOOTHWIRE  -> filter.OutLineHCompound
          [] t = HIDDENSHARPWIRE   -> filter.VCompound
          [] t = VISIBLESMOOTHWIRE -> filter.Rg1LineVCompound
          [] t = VISIBLESHARPWIRE  -> filter.HCompound ]

\* the dict edgesForEdgeType of projectCurvesAndEdges, from the five compounds
\* of the HLR kernel's filter (each the number of its edges, 0 when null)
edgesForEdgeType(filter) ==
    [ t \in EdgeRepresentationType |->
        CASE t = VISIBLEOUTLINE    -> filter.OutLineVCompound
          [] t = HIDDENSMOOTHWIRE  -> filter.OutLineHCompound
          [] t = HIDDENSHARPWIRE   -> filter.HCompound
          [] t = VISIBLESMOOTHWIRE -> filter.Rg1LineVCompound
          [] t = VISIBLESHARPWIRE  -> filter.VCompound ]

\* Projector.projectCurvesAndEdges with _insertEdgesIfNotNull: compounds maps
\* each class to the number of edges of its HLR compound, 0 for a null compound
projectCurvesAndEdges(compounds) ==
    LET present == SelectSeq(edgesForEdgeTypeOrder, LAMBDA t : compounds[t] > 0)
    IN  [i \in 1..Len(present) |->
            PlanarEdgesRepresentation(compounds[present[i]], present[i])]

\* the orthographic projection of the origin and of the three unit points
frame(projector) ==
    uvCoordinatesUsingProjector(projector,
        << <<0, 0, 0>>, <<1, 0, 0>>, <<0, 1, 0>>, <<0, 0, 1>> >>)

\* what the kernel's projector may answer for these four points: their
\* projection, or (degenerate) nan entries for the unit point of an axis that
\* lies along the view, which projects on the origin
frameAnswer(projector, degenerate) ==
    [ j \in 1..4 |->
        IF degenerate /\ j > 1 /\ frame(projector)[j] = frame(projector)[1]
        THEN <<nan, nan>> ELSE frame(projector)[j] ]

\* numpy's a - b on one entry, nan when either is
minus(a, b) == IF isnan(a) \/ isnan(b) THEN nan ELSE a - b

\* Projector.getCoordinateSystem(): the projected unit axes minus the projected
\* origin, anchored at the projected origin; coords is the kernel's answer
getCoordinateSystem(coords) ==
    LET difference(a, b) == <<minus(a[1], b[1]), minus(a[2], b[2])>>
    IN  PlanarCoordinateSystemRepresentation(
            difference(coords[2], coords[1]), difference(coords[3], coords[1]),
            difference(coords[4], coords[1]), coords[1])

(***************************************************************************)
(* What a call gives back: a value, or the exception it raised.            *)
(***************************************************************************)

Returns(value) == [raises |-> "", value |-> value]
Raises(exception) == [raises |-> exception]

(***************************************************************************)
(* PlanarMeshRepresentation: facet, iteration, bounding box                *)
(***************************************************************************)

\* PlanarMeshRepresentation.facet( meshId, facetId ), on the planar scene
\* `planar` and the Topology heap `heap`
facet(planar, heap, meshId, facetId) ==
    IF planar.visible = None THEN Raises("Exception")
    ELSE IF ~ \E i \in 1..Len(planar.visible.columns) : planar.visible.columns[i][2] = facetId
    THEN Raises("Exception")
    ELSE IF meshId + 1 > Len(planar.geometry) THEN Raises("IndexError")
    ELSE LET base == heap[planar.topology[meshId + 1]].base
             geom == planar.geometry[meshId + 1]
         IN  IF facetId + 1 > Len(base) THEN Raises("KeyError")
             ELSE IF \E k \in 1..Len(base[facetId + 1]) : base[facetId + 1][k] + 1 > Len(geom)
             THEN Raises("IndexError")
             ELSE IF meshId + 1 > Len(planar.colors) THEN Raises("IndexError")
             ELSE IF facetId + 1 > Len(planar.colors[meshId + 1]) THEN Raises("IndexError")
             ELSE LET ids == base[facetId + 1]
                      p   == [k \in 1..Len(ids) |-> geom[ids[k] + 1]]
                      c   == planar.colors[meshId + 1][facetId + 1]
                  IN  Returns(PlanarFacet(p,
                          IF Len(c) = 3 THEN RGBA(c[1], c[2], c[3], 255)
                          ELSE RGBA(c[1], c[2], c[3], c[4])))

\* PlanarMeshRepresentation.__next__ at cursor value index (the value of
\* _index before the call)
next(planar, heap, index) ==
    IF planar.visible = None THEN Raises("AttributeError")
    ELSE IF ~ (index < Len(planar.visible.columns)) THEN Raises("StopIteration")
    ELSE facet(planar, heap, planar.visible.columns[index + 1][1],
                             planar.visible.columns[index + 1][2])

RECURSIVE iterate(_, _, _, _)
\* the loop "for facet in planar" from cursor value index on: the facets
\* yielded so far (acc), how the loop ended, and the value _index is left at
iterate(planar, heap, index, acc) ==
    LET n == next(planar, heap, index)
    IN  IF n.raises = "StopIteration"
        THEN [raises |-> "", facets |-> acc, index |-> index + 1]
        ELSE IF n.raises # ""
        THEN [raises |-> n.raises, facets |-> acc, index |-> index + 1]
        ELSE iterate(planar, heap, index + 1, Append(acc, n.value))

\* __iter__ sets _index = 0, then __next__ until StopIteration
forFacetIn(planar, heap) == iterate(planar, heap, 0, <<>>)


\* PlanarMeshRepresentation.boundingBox(): per axis ( min, max, max - min )
\* over the vertex columns of all geometries, a matrix of floats
boundingBox(planar) ==
    LET coord(a) == UNION { {planar.geometry[s][j][a] : j \in 1..Len(planar.geometry[s])}
                            : s \in 1..Len(planar.geometry) }
    IN  [a \in 1..2 |-> <<Q(Min(coord(a))), Q(Max(coord(a))),
                           Q(Max(coord(a)) - Min(coord(a)))>>]

(***************************************************************************)
(* render/render.py                                                        *)
(***************************************************************************)

\* VirtualRenderer( scene ): the projector is built here, from the camera the
\* scene has now
VirtualRenderer(sc) ==
    [ projector        |-> Projector(sc.camera),
      facets           |-> None,
      edges            |-> <<>>,
      coordinatesystem |-> None ]

\* VirtualRenderer.render( colorTable ) statement by statement.  r is the
\* renderer, sc its scene; colorTable tells whether a colour table was passed;
\* compounds and samplerDone are what the HLR kernel and the curve sampler
\* answer, coords what the projector answers for the coordinate frame; order
\* is the result determineVisibleFaces returns.  Each statement
\* assigns its attribute before the next one runs, and an exception leaves the
\* attributes assigned so far.
render(r, sc, colorTable, compounds, samplerDone, order, coords) ==
    LET r1 == [r EXCEPT !.facets = projectFacets(r.projector, sc.part)]
        r2 == [r1 EXCEPT !.facets.visible = ndarray(order)]
        r3 == [r2 EXCEPT !.facets.colors = determineFaceColors(r.projector, sc.part, sc.lights)]
        r4 == [r3 EXCEPT !.edges = projectCurvesAndEdges(compounds)]
        r5 == [r4 EXCEPT !.coordinatesystem = getCoordinateSystem(coords)]
    IN  IF removeAdvertedFacesRaises(sc.part)
        THEN [renderer |-> r1, raises |-> "IndexError"]
        ELSE IF colorTable
        THEN [renderer |-> r2, raises |-> "NotImplementedError"]
        ELSE IF ~ samplerDone /\ \E t \in EdgeRepresentationType : compounds[t] > 0
        THEN [renderer |-> r3, raises |-> "Exception"]
        ELSE [renderer |-> r5, raises |-> ""]

(***************************************************************************)
(* illustrate/components/style.py, svg.py                                  *)
(***************************************************************************)

\* a dash tuple held where None is the alternative
tuple(values) == [values |-> values]

\* LineStyle( edgeType )
LineStyle(edgeType) ==
    [type |-> edgeType, color |-> RGBA(0, 0, 0, 255), width |-> Q(0), dash |-> None]

\* FaceStyle( strokeColor )
FaceStyle(strokeColor) ==
    [ color |-> RGBA(strokeColor[1], strokeColor[2], strokeColor[3], 255),
      width |-> Frac(3, 100), dash |-> None ]

\* ArrowStyle( strokewidth, color, label, fontsize )
ArrowStyle(strokewidth, color, label, fontsize) ==
    [ strokewidth |-> strokewidth,
      headwidth   |-> RMul(strokewidth, Q(3)),
      headlength  |-> RMul(strokewidth, Q(4)),
      label       |-> label,
      color       |-> color,
      fontSize    |-> fontsize ]

\* CoordSystemStyle( size )
CoordSystemStyle(coordSize) ==
    [ size   |-> coordSize,
      x      |-> ArrowStyle(Frac(coordSize, 25), RGBA(0, 0, 0, 255), "x", Frac(coordSize, 5)),
      y      |-> ArrowStyle(Frac(coordSize, 25), RGBA(0, 0, 0, 255), "y", Frac(coordSize, 5)),
      z      |-> ArrowStyle(Frac(coordSize, 25), RGBA(0, 0, 0, 255), "z", Frac(coordSize, 5)),
      margin |-> 2 * coordSize ]

\* where a point p of a TransformGroup( scale, translate ) is drawn: of the
\* list "scale( sx, sy ) translate( tx, ty )" an SVG viewer applies the last
\* transform to the point first
transformed(scale, translation, p) ==
    << RMul(scale[1], RAdd(p[1], translation[1])),
       RMul(scale[2], RAdd(p[2], translation[2])) >>

\* SVGElement.append( contents ): None is not appended
append(contents, element) ==
    IF element = None THEN contents ELSE Append(contents, element)

\* SVGHelper.Arrow( p0, p1, unitLength, style ): the group of the shaft from p0
\* to p1 and the label of the style; the head and the position of the label
\* are left out
Arrow(p0, p1, unitLength, style) ==
    [line |-> <<p0, p1>>, label |-> style.label, style |-> style]

\* str( color ) of an RGBA: a string made of r, g and b; it is no RGBA
str(color) == [str |-> rgb(color)]

\* RGBA.opacity
opacity(color) == Frac(color.a, 255)

\* SVGHelper.Polygon( points, fill, stroke, width, dash ): reads stroke.opacity
\* and fill.opacity, which a str does not have
Polygon(points, fill, stroke, width, dash) ==
    IF "str" \in DOMAIN stroke \/ "str" \in DOMAIN fill
    THEN Raises("AttributeError")
    ELSE Returns([ type            |-> "POLYGON",
                   points          |-> points,
                   strokewidth     |-> width,
                   strokeopacity   |-> opacity(stroke),
                   fillopacity     |-> opacity(fill),
                   strokelinejoin  |-> "round",
                   fill            |-> str(fill).str,
                   stroke          |-> str(stroke).str,
                   strokedasharray |-> dash ])

\* SVGHelper.StyleGroup( strokeColor, strokeWidth, dash ) filled with one path
\* per wire; edgeType names the class the group was written for
StyleGroup(strokeColor, strokeWidth, dash, edgeType, wires) ==
    [ type            |-> "GROUP",
      edgeType        |-> edgeType,
      stroke          |-> str(strokeColor).str,
      strokewidth     |-> strokeWidth,
      strokeopacity   |-> opacity(strokeColor),
      strokedasharray |-> dash,
      paths           |-> wires ]

(***************************************************************************)
(* illustrate/illustrate.py                                                *)
(***************************************************************************)

\* Image( renderer ): reads the renderer's bounding box once, here
Image(r) ==
    [ lineStyles  |-> <<>>,
      faceStyle   |-> None,
      coordStyle  |-> None,
      margin      |-> <<0, 0>>,
      boundingBox |-> boundingBox(r.facets),
      size        |-> <<boundingBox(r.facets)[1][3], boundingBox(r.facets)[2][3]>>,
      zoom        |-> <<Q(1), Q(1)>>,
      scale       |-> <<Q(1), Q(1)>> ]

\* a size that adds the margin of the coordinate-system style once
sizeWithCoordMarginOnce(img) ==
    LET dx == int(RMul(img.boundingBox[1][3], img.zoom[1])) + img.margin[1] * 2
        dy == int(RMul(img.boundingBox[2][3], img.zoom[2])) + img.margin[2] * 2
    IN  IF img.coordStyle # None
        THEN <<dx + img.coordStyle.margin, dy + img.coordStyle.margin>>
        ELSE <<dx, dy>>

\* Image.size: int( extent * zoom ) + margin * 2, and the margin of the
\* coordinate-system style twice when one is set
size(img) ==
    LET dx == int(RMul(img.boundingBox[1][3], img.zoom[1])) + img.margin[1] * 2
        dy == int(RMul(img.boundingBox[2][3], img.zoom[2])) + img.margin[2] * 2
    IN  IF img.coordStyle # None
        THEN <<dx + img.coordStyle.margin * 2, dy + img.coordStyle.margin * 2>>
        ELSE <<dx, dy>>

\* Image.width, Image.height
width(img) == RMul(Q(size(img)[1]), img.scale[1])
height(img) == RMul(Q(size(img)[2]), img.scale[2])

\* a translation by the least x and the least y of the bounding box
translateByMins(img) == << RNeg(img.boundingBox[1][1]), RNeg(img.boundingBox[2][1]) >>

\* Image.translate
translate(img) == << RNeg(img.boundingBox[1][1]), RNeg(img.boundingBox[2][2]) >>

\* Image.boundingBox(): bb is the stored matrix itself, and each of its rows is
\* multiplied in place by the zoom of its axis before it is returned
imageBoundingBox(img) ==
    LET bb == [a \in 1..2 |-> [k \in 1..3 |-> RMul(img.boundingBox[a][k], img.zoom[a])]]
    IN  [image |-> [img EXCEPT !.boundingBox = bb], value |-> bb]

\* Image._writeFacet( facet )
writeFacet(img, f) ==
    IF img.faceStyle # None
    THEN Polygon(f.points, f.color, str(img.faceStyle.color), img.faceStyle.width,
                 IF img.faceStyle.dash # None THEN img.faceStyle.dash.values ELSE <<1, 0>>)
    ELSE Polygon(f.points, f.color, f.color, Frac(3, 100), <<1, 0>>)

RECURSIVE writeSurfaceFrom(_, _, _, _, _)
\* the loop of Image._writeSurface from cursor value index on: each facet is
\* written as soon as it is yielded
writeSurfaceFrom(img, planar, heap, index, acc) ==
    LET n == next(planar, heap, index)
    IN  IF n.raises = "StopIteration"
        THEN [raises |-> "", polygons |-> acc, index |-> index + 1]
        ELSE IF n.raises # ""
        THEN [raises |-> n.raises, polygons |-> acc, index |-> index + 1]
        ELSE LET e == writeFacet(img, n.value)
             IN  IF e.raises # ""
                 THEN [raises |-> e.raises, polygons |-> acc, index |-> index + 1]
                 ELSE writeSurfaceFrom(img, planar, heap, index + 1, Append(acc, e.value))

\* the loop of _writeSurface entered past the first column of the matrix
writeSurfaceFromSecond(img, r, heap) == writeSurfaceFrom(img, r.facets, heap, 1, <<>>)

\* Image._writeSurface()
writeSurface(img, r, heap) == writeSurfaceFrom(img, r.facets, heap, 0, <<>>)

\* a hierarchy list in the order the projector fills its edge list
hierarchyOutlineFirst ==
    <<VISIBLEOUTLINE, HIDDENSMOOTHWIRE, HIDDENSHARPWIRE, VISIBLESMOOTHWIRE, VISIBLESHARPWIRE>>

\* the hierarchy list of Image._writeWiresCollection
hierarchy ==
    <<HIDDENSMOOTHWIRE, HIDDENSHARPWIRE, VISIBLESMOOTHWIRE, VISIBLESHARPWIRE, VISIBLEOUTLINE>>

\* next( ( x for x in xs if x.type == t ), None ): the first match, as a
\* sequence of at most one element
firstOfType(xs, t) ==
    LET m == SelectSeq(xs, LAMBDA x : x.type = t)
    IN  IF m = <<>> THEN <<>> ELSE <<m[1]>>

\* Image._writeWiresCollection()
writeWiresCollection(img, r) ==
    LET group(t) ==
            LET edges     == firstOfType(r.edges, t)
                linestyle == firstOfType(img.lineStyles, t)
            IN  IF edges = <<>> \/ linestyle = <<>> THEN <<>>
                ELSE << StyleGroup(linestyle[1].color, linestyle[1].width,
                            IF linestyle[1].dash # None THEN linestyle[1].dash.values
                            ELSE <<1, 0>>,
                            t, edges[1].wires) >>
    IN  Concat([i \in 1..Len(hierarchy) |-> group(hierarchy[i])])

\* a float entry of a numpy array: an integer as a fraction, nan as nan
float(a) == IF isnan(a) THEN nan ELSE Q(a)

\* numpy's a * b and a + b on one entry, nan when either is
times(a, b) == IF isnan(a) \/ isnan(b) THEN nan ELSE RMul(a, b)
plus(a, b) == IF isnan(a) \/ isnan(b) THEN nan ELSE RAdd(a, b)

\* every axis, nan or not
axesAll(axes) == axes

\* `if not any( isnan( x ) )` for x, y and z in turn: the axes that have no nan
\* entry, in the order given
axesWithoutNan(axes) ==
    SelectSeq(axes, LAMBDA a : ~ \E i \in 1..2 : isnan(a.vector[i]))

\* Image._writeCoordinateSystem(): None without a style; else the group of one
\* Arrow from the anchor along each axis scaled by size / 2, y downwards
writeCoordinateSystem(img, r) ==
    IF img.coordStyle = None THEN [raises |-> "", value |-> None]
    ELSE IF r.coordinatesystem = None THEN [raises |-> "AttributeError"]
    ELSE
        LET sizefactor == Frac(img.coordStyle.size, 2)
            anchor == <<Q(img.coordStyle.size), RSub(height(img), Q(img.coordStyle.size))>>
            scaled(v) == <<times(float(v[1]), sizefactor), times(float(v[2]), sizefactor)>>
            axes == << [vector |-> scaled(r.coordinatesystem.x), style |-> img.coordStyle.x],
                       [vector |-> scaled(r.coordinatesystem.y), style |-> img.coordStyle.y],
                       [vector |-> scaled(r.coordinatesystem.z), style |-> img.coordStyle.z] >>
            draw(a) == Arrow(anchor,
                             <<plus(anchor[1], times(a.vector[1], Q(1))),
                               plus(anchor[2], times(a.vector[2], Q(-1)))>>,
                             sizefactor, a.style)
        IN  [ raises |-> "",
              value  |-> [ type   |-> "GROUP",
                           arrows |-> [ i \in 1..Len(axesWithoutNan(axes)) |->
                                          draw(axesWithoutNan(axes)[i]) ] ] ]

\* Image._write(): the document, or the exception of the surface loop or of the
\* coordinate system; index is the value the planar scene's cursor is left at
write(img, r, heap) ==
    LET surface == writeSurface(img, r, heap)
        system  == writeCoordinateSystem(img, r)
    IN  IF surface.raises # ""
        THEN [raises |-> surface.raises, index |-> surface.index]
        ELSE IF system.raises # ""
        THEN [raises |-> system.raises, index |-> surface.index]
        ELSE [ raises |-> "",
               index  |-> surface.index,
               value  |->
                 [ width      |-> width(img),
                   height     |-> height(img),
                   scale      |-> img.scale,
                   coordSysMargin |-> IF img.coordStyle # None THEN img.coordStyle.margin ELSE 0,
                   zoom       |-> img.zoom,
                   margins    |-> img.margin,
                   geomScale  |-> <<1, -1>>,
                   translate  |-> translate(img),
                   surface    |-> surface.polygons,
                   wires      |-> writeWiresCollection(img, r),
                   coordinateSystem |-> append(<<>>, system.value) ] ]

(***************************************************************************)
(* Fixtures: the meshes, colours, materials, cameras and lights the        *)
(* program is run on.                                                      *)
(***************************************************************************)

\* bounds of the exploration
MaxLights == 2
MaxLineStyles == 2
MaxEdits == 1

\* five vertices in the plane z = const; all coordinates are multiples of 3,
\* so the centre of every triangle is a lattice point
Vertices(z) == << <<0, 0, z>>, <<3, 0, z>>, <<0, 3, z>>, <<6, 0, z>>, <<3, 3, z>> >>

\* triangles over them: tA and tB have normal +z and centres ( 1, 1, z ) and
\* ( 4, 1, z ); tAr and tBr are the same triangles wound the other way
tA == <<0, 1, 2>>
tAr == <<0, 2, 1>>
tB == <<1, 3, 4>>
tBr == <<1, 4, 3>>

\* a mesh description: the plane its vertices lie in and its facet list
MeshAt(z, topology) == [z |-> z, topology |-> topology]

\* parts for the visibility and depth sort
SortParts ==
    { << MeshAt(0, <<tA>>) >>,
      << MeshAt(0, <<tAr>>) >>,
      << MeshAt(0, <<tA>>), MeshAt(10, <<tA>>) >>,
      << MeshAt(0, <<tAr, tB>>) >>,
      << MeshAt(0, <<tA>>), MeshAt(0, <<tB>>) >>,
      << MeshAt(10, <<tA, tBr>>), MeshAt(0, <<tB>>) >> }

\* parts for the lookup of single facets: solids with a facet turned away from
\* the camera at an index at which the other solid has a facet turned to it
FacetParts ==
    { << MeshAt(0, <<tAr>>) >>,
      << MeshAt(10, <<tA, tBr>>), MeshAt(0, <<tB>>) >>,
      << MeshAt(0, <<tA, tBr>>), MeshAt(0, <<tAr, tB>>) >> }

\* the indices PlanarMeshRepresentation.facet is called with
FacetIndices == 0..2

\* parts for shading: every light below is at a whole distance from every centre
ShadeParts ==
    { << MeshAt(0, <<tA, tBr>>) >>,
      << MeshAt(0, <<tAr>>), MeshAt(8, <<tB>>) >> }

\* parts for the emitter
PipeParts ==
    { << MeshAt(0, <<tA, tB>>) >>,
      << MeshAt(0, <<tAr, tB>>), MeshAt(10, <<tA>>) >> }

\* parts for the renderer's life cycle
LifeCycleParts ==
    { << MeshAt(0, <<tAr, tB>>), MeshAt(10, <<tA>>) >> }

\* view directions handed to Camera( view ); they need not be unit vectors
Views == { <<0, 0, 1>>, <<0, 0, -2>>, <<1, 0, 0>> }

\* base colours of solids
Colors == { RGBA(100, 100, 100, 255), RGBA(200, 50, 0, 128), RGBA(0, 255, 30, 0) }

\* the material a SolidRepresentation starts with, with a whole shininess
DefaultMaterial == MaterialProperties(Frac(7, 10), Frac(7, 10), Frac(3, 10), 1)

\* materials set through PartRepresentation.material
Materials ==
    { DefaultMaterial,
      MaterialProperties(Frac(-1, 2), Q(0), Frac(3, 10), 2),
      MaterialProperties(Q(1), Frac(-7, 10), Q(1), 1) }

\* positions of light sources
LightPositions == { <<1, 1, 4>>, <<4, 1, 4>> }

\* what the HLR kernel answers: the number of edges of each class's compound
Compounds(vo, hsm, hsh, vsm, vsh) ==
    [ t \in EdgeRepresentationType |->
        CASE t = VISIBLEOUTLINE    -> vo
          [] t = HIDDENSMOOTHWIRE  -> hsm
          [] t = HIDDENSHARPWIRE   -> hsh
          [] t = VISIBLESMOOTHWIRE -> vsm
          [] t = VISIBLESHARPWIRE  -> vsh ]

HLRAnswers == { Compounds(0, 0, 0, 0, 0), Compounds(3, 0, 0, 0, 2), Compounds(1, 1, 1, 1, 1) }

\* the calls of render() explored: with a colour table; without one, the curve
\* sampler succeeding on each HLR answer; without one, the sampler failing
RenderCalls(answers) ==
    { [colorTable |-> TRUE, compounds |-> Compounds(0, 0, 0, 0, 0), samplerDone |-> TRUE],
      [colorTable |-> FALSE, compounds |-> Compounds(3, 0, 0, 0, 2), samplerDone |-> FALSE] }
    \cup { [colorTable |-> FALSE, compounds |-> c, samplerDone |-> TRUE] : c \in answers }

\* what the HLR kernel's filter answers: each compound null or of two edges
Filters ==
    [ OutLineVCompound : {0, 2}, OutLineHCompound : {0, 2}, Rg1LineVCompound : {0, 2},
      HCompound : {0, 2}, VCompound : {0, 2} ]

\* the facet lists Topology.__setitem__ is called with
SetItemValues == { tAr, tB }

\* the vertex collections Geometry is constructed from: the first n vertices as
\* a list of tuples, of kernel vectors or of lists, and as a ( 3 x n ) matrix
MaxVertices == 2

GeometryInputs ==
    UNION { LET points == SubSeq(Vertices(0), 1, n)
            IN  { [type |-> "list", of |-> "tuple", items |-> points],
                  [type |-> "list", of |-> "VectorBase", items |-> points],
                  [type |-> "list", of |-> "list", items |-> points],
                  [ type  |-> "ndarray",
                    shape |-> <<3, n>>,
                    rows  |-> [i \in 1..3 |-> [j \in 1..n |-> points[j][i]]] ] }
          : n \in 0..MaxVertices }

\* the colours PartRepresentation.color is called with, as tuples with and
\* without the alpha entry
ColorTuples == { <<200, 50, 0, 128>>, <<0, 255, 30>> }

\* the size settings a mesh is generated with
MeshSizes ==
    { [type |-> "tuple", value |-> <<1, 2>>],
      [type |-> "MeshSize", name |-> "DEFAULT"],
      [type |-> "MeshSize", name |-> "COARSE"] }

\* the lengths of the bounding box of the CAD object
BoundingBoxLengths == <<6, 3, 3>>

\* what the kernels answer to one generate(): the area of the object (a number,
\* or None when reading it fails), the mesher's mesh (None when the mesher
\* raises) and the kernel's own tessellation at each tolerance, whose vertices
\* lie off the surface by the tolerance
Kernels ==
    [ area       : { None, [number |-> 18] },
      mesher     : { None, MeshAt(0, <<tA, tB>>) },
      tessellate : { [tolerance \in {1, 10} |-> MeshAt(tolerance, <<tA>>)] } ]

\* the views a Camera is constructed with, the zero vector among them
CameraViews == Views \cup { <<0, 0, 0>> }

\* the externally generated meshes PartRepresentation.mesh is called with
ReplacementMeshes == { MeshAt(5, <<tA>>), MeshAt(0, <<tB>>) }

\* the sizes a CoordSystemStyle is constructed with
CoordSystemSizes == { 10, 25 }

\* five vertices of a surface folded along the y axis: 0, 1, 2 and 4 lie in
\* the plane z = 0, 0, 2 and 3 in the plane x = 0
FoldedVertices == << <<0, 0, 0>>, <<3, 0, 0>>, <<0, 3, 0>>, <<0, 3, 3>>, <<3, 3, 0>> >>

\* quadrilaterals: qP is planar over either vertex set, qX crosses itself over
\* Vertices( z ), qF is folded over FoldedVertices
qP == <<0, 1, 4, 2>>
qX == <<0, 1, 2, 4>>
qF == <<0, 1, 2, 3>>

\* the number of facets of the meshes a MeshModel is constructed from
MaxFacets == 2

\* the facet lists of at most MaxFacets facets over a set of facets
FacetLists(facets) == UNION { [1..n -> facets] : n \in 1..MaxFacets }

\* the meshes a MeshModel is constructed from
MeshInputs ==
    { [geometry |-> Vertices(z), topology |-> t] :
          z \in {0, 10}, t \in FacetLists({tA, tAr, tB, qP, qX}) }
    \cup { [geometry |-> FoldedVertices, topology |-> t] :
               t \in FacetLists({tA, <<0, 2, 3>>, qP, qF}) }

\* the zooms, margins and scales an Image is given
Zooms == { <<Frac(1, 2), Q(2)>>, <<Frac(3, 2), Frac(3, 2)>> }
ImageMargins == { <<5, 2>> }
Scales == { <<Q(2), Frac(3, 2)>> }

\* the loops "for facet in renderer._facets" a client runs
LoopIds == {1, 2}

\* the classes line styles are registered for
LineStyleTypes == { VISIBLEOUTLINE, HIDDENSMOOTHWIRE, VISIBLESHARPWIRE }

\* the Topology heap of a part: solid s (0-based) has the Topology with id s + 1
HeapOf(meshes) == [s \in 1..Len(meshes) |-> Topology(meshes[s].topology)]

\* PartRepresentation with every solid's mesh, colour and material set
PartOf(meshes, colors, materials) ==
    [ s \in 1..Len(meshes) |->
        SolidRepresentation(
            MeshModel(Mesh(Vertices(meshes[s].z), s), Topology(meshes[s].topology)),
            colors[s], materials[s]) ]

\* a part with the first of Colors-like defaults: grey, default material
PlainPart(meshes) ==
    PartOf(meshes, [s \in 1..Len(meshes) |-> RGBA(100, 100, 100, 255)],
                   [s \in 1..Len(meshes) |-> DefaultMaterial])

(***************************************************************************)
(* The operations                                                          *)
(***************************************************************************)

Called(op, raises, value) == [op |-> op, raises |-> raises, value |-> value]

\* VirtualScene.camera = Camera( view )
SetCamera(view) ==
    /\ scene' = [scene EXCEPT !.camera = Camera(view)]
    /\ ret' = Called("VirtualScene.camera", "", None)
    /\ UNCHANGED <<topologies, renderer, image, edits, loops>>

\* VirtualScene.appendLightSource( LightSource( position ) )
AppendLightSource(position) ==
    /\ Len(scene.lights) < MaxLights
    /\ scene' = [scene EXCEPT !.lights = Append(@, LightSource(position))]
    /\ ret' = Called("VirtualScene.appendLightSource", "", None)
    /\ UNCHANGED <<topologies, renderer, image, edits, loops>>

\* part.solids[ s ].mesh.base.topology[ key ] = ids
SetItem(s, key, ids) ==
    /\ edits < MaxEdits
    /\ s \in 1..Len(scene.part)
    /\ key \in {0, Len(topologies[scene.part[s].mesh.mesh.topology].base)}
    /\ topologies' = [topologies EXCEPT ![scene.part[s].mesh.mesh.topology] =
                          TopologySetItem(@, key, ids)]
    /\ edits' = edits + 1
    /\ ret' = Called("Topology.__setitem__", "", None)
    /\ UNCHANGED <<scene, renderer, image, loops>>

\* a call of a PartRepresentation method with its solid index
CalledOn(op, solidIndex, raises) ==
    [op |-> op, solidIndex |-> solidIndex, raises |-> raises, value |-> None]

\* self._solids[ solidIndex ].mesh = MeshModel( Mesh( geometry, topology ) ):
\* the new mesh has a Topology object of its own
AssignMesh(solidIndex, m) ==
    /\ topologies' = Append(topologies, Topology(m.topology))
    /\ scene' = [scene EXCEPT !.part[listPosition(scene.part, solidIndex)].mesh =
                     MeshModel(Mesh(Vertices(m.z), Len(topologies) + 1),
                               Topology(m.topology))]

\* part.mesh( solidIndex, MeshModel( Mesh( geometry, topology ) ) )
SetMesh(solidIndex, m) ==
    /\ edits < MaxEdits
    /\ IF assertIsValidIndexRaises(scene.part, solidIndex)
       THEN /\ ret' = CalledOn("PartRepresentation.mesh", solidIndex, "Exception")
            /\ UNCHANGED <<topologies, scene>>
       ELSE /\ AssignMesh(solidIndex, m)
            /\ ret' = CalledOn("PartRepresentation.mesh", solidIndex, "")
    /\ edits' = edits + 1
    /\ UNCHANGED <<renderer, image, loops>>

\* part.tessellate( solidIndex, size ): MeshModel( solid.base, size ) on the
\* Solid of the addressed SolidRepresentation
Tessellate(solidIndex, meshSize, kernel) ==
    /\ edits < MaxEdits
    /\ IF assertIsValidIndexRaises(scene.part, solidIndex)
       THEN /\ ret' = CalledOn("PartRepresentation.tessellate", solidIndex, "Exception")
            /\ UNCHANGED <<topologies, scene>>
       ELSE LET made == generate("Solid", meshSize, BoundingBoxLengths, kernel)
            IN  IF made.raises # ""
                THEN /\ ret' = CalledOn("PartRepresentation.tessellate", solidIndex,
                                        made.raises)
                     /\ UNCHANGED <<topologies, scene>>
                ELSE /\ AssignMesh(solidIndex, made.value)
                     /\ ret' = CalledOn("PartRepresentation.tessellate", solidIndex, "")
    /\ edits' = edits + 1
    /\ UNCHANGED <<renderer, image, loops>>

\* part.color( solidIndex, color ): RGBA( *color ), alpha 255 without a fourth entry
SetColor(solidIndex, color) ==
    /\ IF assertIsValidIndexRaises(scene.part, solidIndex)
       THEN /\ ret' = CalledOn("PartRepresentation.color", solidIndex, "Exception")
            /\ UNCHANGED scene
       ELSE /\ scene' = [scene EXCEPT !.part[listPosition(scene.part, solidIndex)].color =
                             RGBA(color[1], color[2], color[3],
                                  IF Len(color) > 3 THEN color[4] ELSE 255)]
            /\ ret' = CalledOn("PartRepresentation.color", solidIndex, "")
    /\ UNCHANGED <<topologies, renderer, image, edits, loops>>

\* part.material( solidIndex, material )
SetMaterial(solidIndex, material) ==
    /\ IF assertIsValidIndexRaises(scene.part, solidIndex)
       THEN /\ ret' = CalledOn("PartRepresentation.material", solidIndex, "Exception")
            /\ UNCHANGED scene
       ELSE /\ scene' = [scene EXCEPT
                             !.part[listPosition(scene.part, solidIndex)].material = material]
            /\ ret' = CalledOn("PartRepresentation.material", solidIndex, "")
    /\ UNCHANGED <<topologies, renderer, image, edits, loops>>

\* MeshModel( model, size ) for a CADModel or a Solid: the mesh generate() returns
NewMeshModel(cad, meshSize, kernel) ==
    /\ ret' = LET made == generate(cad, meshSize, BoundingBoxLengths, kernel)
              IN  [ op     |-> "MeshModel",
                    cad    |-> cad,
                    size   |-> meshSize,
                    kernel |-> kernel,
                    gmsh   |-> mesherCalls(meshSize, BoundingBoxLengths, kernel),
                    raises |-> made.raises,
                    value  |-> IF made.raises = "" THEN made.value ELSE None ]
    /\ UNCHANGED <<topologies, scene, renderer, image, edits, loops>>

\* MeshModel( Mesh( geometry, topology ) )
NewMeshModelOfMesh(geometry, topology) ==
    /\ ret' = [ op       |-> "MeshModel( Mesh )",
                geometry |-> geometry,
                topology |-> topology,
                raises   |-> "",
                value    |-> MeshModel(Mesh(geometry, 0), Topology(topology)) ]
    /\ UNCHANGED <<topologies, scene, renderer, image, edits, loops>>

\* Geometry( geometry )
NewGeometry(geometry) ==
    /\ ret' = LET made == Geometry(geometry)
              IN  Called("Geometry", made.raises,
                         IF made.raises = "" THEN made.value ELSE None)
    /\ UNCHANGED <<topologies, scene, renderer, image, edits, loops>>

\* renderer = VirtualRenderer( scene ); scene.camera raises without a camera
NewRenderer ==
    /\ renderer = None
    /\ IF scene.camera = None
       THEN /\ ret' = Called("VirtualRenderer", "Exception", None)
            /\ UNCHANGED renderer
       ELSE /\ renderer' = VirtualRenderer(scene)
            /\ ret' = Called("VirtualRenderer", "", None)
    /\ UNCHANGED <<topologies, scene, image, edits, loops>>

\* renderer.render( colorTable ) with the projector answering coords for the
\* coordinate frame
RenderFrame(colorTable, compounds, samplerDone, coords) ==
    /\ renderer # None
    /\ \E order \in (IF removeAdvertedFacesRaises(scene.part) THEN {<<>>}
                     ELSE determineVisibleFaces(renderer.projector, scene.part)) :
         LET done == render(renderer, scene, colorTable, compounds, samplerDone, order,
                            coords)
         IN  /\ renderer' = done.renderer
             /\ ret' = Called("VirtualRenderer.render", done.raises, None)
    /\ UNCHANGED <<topologies, scene, image, edits, loops>>

\* renderer.render( colorTable )
Render(colorTable, compounds, samplerDone) ==
    /\ renderer # None
    /\ RenderFrame(colorTable, compounds, samplerDone,
                   frameAnswer(renderer.projector, FALSE))

\* renderer._projector.projectCurvesAndEdges( part ): the curve sampler raises
\* on the first edge it is given when it is not done
ProjectCurvesAndEdges(filter, samplerDone) ==
    /\ renderer # None
    /\ ret' = LET compounds == edgesForEdgeType(filter)
                  raises == ~ samplerDone /\ \E t \in EdgeRepresentationType : compounds[t] > 0
              IN  [ op          |-> "Projector.projectCurvesAndEdges",
                    filter      |-> filter,
                    samplerDone |-> samplerDone,
                    raises      |-> IF raises THEN "Exception" ELSE "",
                    value       |-> IF raises THEN None
                                    ELSE ndarray(projectCurvesAndEdges(compounds)) ]
    /\ UNCHANGED <<topologies, scene, renderer, image, edits, loops>>

\* renderer.render( colorTable ) as the emitter's client calls it: before the
\* Image is constructed over the renderer
RenderForImage(colorTable, compounds, samplerDone) ==
    /\ image = None
    /\ Render(colorTable, compounds, samplerDone)

\* renderer.render() with either answer of the projector for the coordinate frame
RenderAnyFrame ==
    /\ image = None
    /\ renderer # None
    /\ \E degenerate \in BOOLEAN :
           RenderFrame(FALSE, Compounds(3, 0, 0, 0, 2), TRUE,
                       frameAnswer(renderer.projector, degenerate))

\* image = Image( renderer ); renderer.boundingBox() raises before any render
NewImage ==
    /\ image = None
    /\ renderer # None
    /\ IF renderer.facets = None
       THEN /\ ret' = Called("Image", "AttributeError", None)
            /\ UNCHANGED image
       ELSE /\ image' = Image(renderer)
            /\ ret' = Called("Image", "", None)
    /\ UNCHANGED <<topologies, scene, renderer, edits, loops>>

\* image.addLineStyle( LineStyle( edgeType ) )
AddLineStyle(edgeType) ==
    /\ image # None
    /\ Len(image.lineStyles) < MaxLineStyles
    /\ image' = [image EXCEPT !.lineStyles = Append(@, LineStyle(edgeType))]
    /\ ret' = Called("Image.addLineStyle", "", None)
    /\ UNCHANGED <<topologies, scene, renderer, edits, loops>>

\* image.setFaceStyle( FaceStyle( strokeColor ) )
SetFaceStyle(strokeColor) ==
    /\ image # None
    /\ image' = [image EXCEPT !.faceStyle = FaceStyle(strokeColor)]
    /\ ret' = Called("Image.setFaceStyle", "", None)
    /\ UNCHANGED <<topologies, scene, renderer, edits, loops>>

\* image.setCoordSystemStyle( CoordSystemStyle( size ) )
SetCoordSystemStyle(coordSize) ==
    /\ image # None
    /\ image' = [image EXCEPT !.coordStyle = CoordSystemStyle(coordSize)]
    /\ ret' = Called("Image.setCoordSystemStyle", "", None)
    /\ UNCHANGED <<topologies, scene, renderer, edits, loops>>

\* image.zoom = zoom
SetZoom(zoom) ==
    /\ image # None
    /\ image' = [image EXCEPT !.zoom = zoom]
    /\ ret' = Called("Image.zoom", "", None)
    /\ UNCHANGED <<topologies, scene, renderer, edits, loops>>

\* image.margins = margins
SetMargins(margins) ==
    /\ image # None
    /\ image' = [image EXCEPT !.margin = margins]
    /\ ret' = Called("Image.margins", "", None)
    /\ UNCHANGED <<topologies, scene, renderer, edits, loops>>

\* image.scale = scale
SetScale(scale) ==
    /\ image # None
    /\ image' = [image EXCEPT !.scale = scale]
    /\ ret' = Called("Image.scale", "", None)
    /\ UNCHANGED <<topologies, scene, renderer, edits, loops>>

\* image.boundingBox()
BoundingBox ==
    /\ image # None
    /\ edits < MaxEdits
    /\ image' = imageBoundingBox(image).image
    /\ ret' = Called("Image.boundingBox", "", imageBoundingBox(image).value)
    /\ edits' = edits + 1
    /\ UNCHANGED <<topologies, scene, renderer, loops>>

\* renderer._facets.facet( meshId, facetId ); before the first render()
\* renderer._facets is None
Facet(meshId, facetId) ==
    /\ renderer # None
    /\ ret' = LET got == IF renderer.facets = None THEN Raises("AttributeError")
                         ELSE facet(renderer.facets, topologies, meshId, facetId)
              IN  [ op      |-> "PlanarMeshRepresentation.facet",
                    meshId  |-> meshId,
                    facetId |-> facetId,
                    raises  |-> got.raises,
                    value   |-> IF got.raises = "" THEN got.value ELSE None ]
    /\ UNCHANGED <<topologies, scene, renderer, image, edits, loops>>

\* iter( renderer._facets ) at the head of loop l: __iter__ sets the _index of
\* the PlanarMeshRepresentation to 0 and returns the representation itself
Iter(l) ==
    /\ renderer # None
    /\ renderer.facets # None
    /\ loops[l].state = "none"
    /\ renderer' = [renderer EXCEPT !.facets.index = 0]
    /\ loops' = [loops EXCEPT ![l].state = "running"]
    /\ ret' = Called("PlanarMeshRepresentation.__iter__", "", None)
    /\ UNCHANGED <<topologies, scene, image, edits>>

\* next( ... ) in loop l: __next__ reads and advances the _index of the
\* representation; the loop ends on StopIteration and is left by any other
\* exception
Next_(l) ==
    /\ loops[l].state = "running"
    /\ LET n == next(renderer.facets, topologies, renderer.facets.index)
       IN  /\ renderer' = [renderer EXCEPT !.facets.index = @ + 1]
           /\ loops' = IF n.raises = "StopIteration" THEN [loops EXCEPT ![l].state = "done"]
                       ELSE IF n.raises # "" THEN [loops EXCEPT ![l].state = "raised"]
                       ELSE [loops EXCEPT ![l].facets = Append(@, n.value)]
           /\ ret' = Called("PlanarMeshRepresentation.__next__", n.raises,
                            IF n.raises = "" THEN n.value ELSE None)
    /\ UNCHANGED <<topologies, scene, image, edits>>

\* image._write(): the document is returned; the loop over the facets leaves
\* the planar scene's cursor where it stopped
Write ==
    /\ image # None
    /\ LET w == write(image, renderer, topologies)
       IN  /\ renderer' = [renderer EXCEPT !.facets.index = w.index]
           /\ ret' = Called("Image._write", w.raises, IF w.raises = "" THEN w.value ELSE None)
    /\ UNCHANGED <<topologies, scene, image, edits, loops>>

(***************************************************************************)
(* Specifications                                                          *)
(***************************************************************************)

\* a scene composed over the part of `meshes`, nothing rendered yet
Composed(meshes, part, camera) ==
    /\ topologies = HeapOf(meshes)
    /\ scene = [VirtualScene(part) EXCEPT !.camera = camera]
    /\ image = None
    /\ edits = 0
    /\ loops = [l \in LoopIds |-> [state |-> "none", facets |-> <<>>]]

\* The life cycle of a renderer: a scene as VirtualScene( part ) leaves it, then
\* cameras set, topologies edited, a renderer constructed and render() called.
Init ==
    /\ \E meshes \in LifeCycleParts : Composed(meshes, PlainPart(meshes), None)
    /\ renderer = None
    /\ ret = Called("VirtualScene", "", None)

Next ==
    \/ \E view \in Views : SetCamera(view)
    \/ \E s \in 1..2, key \in 0..2, ids \in SetItemValues : SetItem(s, key, ids)
    \/ NewRenderer
    \/ \E call \in RenderCalls({Compounds(3, 0, 0, 0, 2)}) :
           Render(call.colorTable, call.compounds, call.samplerDone)

Spec == Init /\ [][Next]_vars

\* Visibility and depth sort: determineVisibleFaces on every part of SortParts
\* under every camera of Views, through render().
InitSort ==
    /\ \E meshes \in SortParts, view \in Views :
           /\ Composed(meshes, PlainPart(meshes), Camera(view))
           /\ renderer = VirtualRenderer([VirtualScene(PlainPart(meshes)) EXCEPT
                                              !.camera = Camera(view)])
    /\ ret = Called("VirtualRenderer", "", None)

NextSort ==
    \E call \in RenderCalls(HLRAnswers) : Render(call.colorTable, call.compounds, call.samplerDone)

SpecSort == InitSort /\ [][NextSort]_vars

\* Edge classification: projectCurvesAndEdges on every answer of the HLR kernel
\* and of the curve sampler, for a projector of every view.
NextEdges ==
    \E filter \in Filters, samplerDone \in BOOLEAN : ProjectCurvesAndEdges(filter, samplerDone)

SpecEdges == InitSort /\ [][NextEdges]_vars

\* Shading: determineFaceColors on solids of every colour and material, under
\* lights appended one by one.
InitShade ==
    /\ \E meshes \in ShadeParts, view \in Views, color \in Colors, material \in Materials :
           LET part == PartOf(meshes, [s \in 1..Len(meshes) |-> color],
                                      [s \in 1..Len(meshes) |-> material])
           IN  /\ Composed(meshes, part, Camera(view))
               /\ renderer = VirtualRenderer([VirtualScene(part) EXCEPT !.camera = Camera(view)])
    /\ ret = Called("VirtualRenderer", "", None)

NextShade ==
    \/ \E position \in LightPositions : AppendLightSource(position)
    \/ Render(FALSE, Compounds(3, 0, 0, 0, 2), TRUE)

SpecShade == InitShade /\ [][NextShade]_vars

\* Emission: a scene is rendered, then an Image is constructed over the
\* renderer, given line styles and a face style, and written as an SVG element
\* tree.
InitEmit ==
    /\ \E meshes \in PipeParts, view \in Views :
           /\ Composed(meshes, PlainPart(meshes), Camera(view))
           /\ renderer = VirtualRenderer([VirtualScene(PlainPart(meshes)) EXCEPT
                                              !.camera = Camera(view)])
    /\ ret = Called("VirtualRenderer", "", None)

NextEmit ==
    \/ \E call \in RenderCalls(HLRAnswers) :
           RenderForImage(call.colorTable, call.compounds, call.samplerDone)
    \/ NewImage
    \/ \E edgeType \in LineStyleTypes : AddLineStyle(edgeType)
    \/ SetFaceStyle(<<0, 0, 0>>)
    \/ Write

SpecEmit == InitEmit /\ [][NextEmit]_vars

\* The coordinate system: render() under either answer of the projector, an
\* Image with and without a coordinate-system style, written.
NextFrame ==
    \/ RenderAnyFrame
    \/ NewImage
    \/ \E coordSize \in CoordSystemSizes : SetCoordSystemStyle(coordSize)
    \/ \E edgeType \in LineStyleTypes : AddLineStyle(edgeType)
    \/ Write

SpecFrame == InitEmit /\ [][NextFrame]_vars

\* The layout of the document: an Image over a rendered scene is given a
\* zoom, margins, a scale and a coordinate-system style, asked for its
\* bounding box and written.
NextLayout ==
    \/ RenderForImage(FALSE, Compounds(3, 0, 0, 0, 2), TRUE)
    \/ NewImage
    \/ \E zoom \in Zooms : SetZoom(zoom)
    \/ \E margins \in ImageMargins : SetMargins(margins)
    \/ \E scale \in Scales : SetScale(scale)
    \/ SetCoordSystemStyle(10)
    \/ BoundingBox
    \/ Write

SpecLayout == InitEmit /\ [][NextLayout]_vars

\* Composition: cameras of every view set, lights appended, geometries
\* constructed and meshes generated from the CAD object, before any renderer
\* exists.
InitCompose ==
    /\ \E meshes \in PipeParts : Composed(meshes, PlainPart(meshes), None)
    /\ renderer = None
    /\ ret = Called("VirtualScene", "", None)

NextCompose ==
    \/ \E view \in CameraViews : SetCamera(view)
    \/ \E position \in LightPositions : AppendLightSource(position)
    \/ \E geometry \in GeometryInputs : NewGeometry(geometry)
    \/ \E cad \in {"CADModel", "Solid"}, meshSize \in MeshSizes, kernel \in Kernels :
           NewMeshModel(cad, meshSize, kernel)

SpecCompose == InitCompose /\ [][NextCompose]_vars

\* Iteration: a scene is rendered, then the client runs loops over the
\* facets of the planar scene, one inside the other or one after the other.
NextIterate ==
    \/ /\ renderer.facets = None
       /\ Render(FALSE, Compounds(0, 0, 0, 0, 0), TRUE)
    \/ \E l \in LoopIds : Iter(l)
    \/ \E l \in LoopIds : Next_(l)

SpecIterate == InitSort /\ [][NextIterate]_vars

\* Facet lookup: a scene is rendered once and single facets are asked for by
\* every pair of indices, before the render and after it.
InitFacet ==
    /\ \E meshes \in FacetParts, view \in Views :
           /\ Composed(meshes, PlainPart(meshes), Camera(view))
           /\ renderer = VirtualRenderer([VirtualScene(PlainPart(meshes)) EXCEPT
                                              !.camera = Camera(view)])
    /\ ret = Called("VirtualRenderer", "", None)

NextFacet ==
    \/ /\ renderer.facets = None
       /\ \E call \in RenderCalls(HLRAnswers) : Render(call.colorTable, call.compounds, call.samplerDone)
    \/ \E meshId \in FacetIndices, facetId \in FacetIndices : Facet(meshId, facetId)

SpecFacet == InitFacet /\ [][NextFacet]_vars

\* The stages of the pipeline in any order a client may call them: cameras
\* set, a renderer constructed, render() called with every outcome, an Image
\* constructed and written.
NextStages ==
    \/ \E view \in Views : SetCamera(view)
    \/ NewRenderer
    \/ \E call \in RenderCalls({Compounds(3, 0, 0, 0, 2)}) :
           Render(call.colorTable, call.compounds, call.samplerDone)
    \/ NewImage
    \/ Write

SpecStages == Init /\ [][NextStages]_vars

\* Mesh models: a MeshModel constructed from every mesh of MeshInputs.
NextMesh ==
    \E m \in MeshInputs : NewMeshModelOfMesh(m.geometry, m.topology)

SpecMesh == InitCompose /\ [][NextMesh]_vars

\* The solids of a part: colours, materials and meshes set and meshes generated
\* by solid index.
InitPart ==
    /\ \E meshes \in LifeCycleParts : Composed(meshes, PlainPart(meshes), None)
    /\ renderer = None
    /\ ret = Called("VirtualScene", "", None)

SolidIndices == -3..2

NextPart ==
    \/ \E solidIndex \in SolidIndices, color \in ColorTuples : SetColor(solidIndex, color)
    \/ \E solidIndex \in SolidIndices :
           SetMaterial(solidIndex, MaterialProperties(Q(1), Frac(-7, 10), Q(1), 1))
    \/ \E solidIndex \in SolidIndices, m \in ReplacementMeshes : SetMesh(solidIndex, m)
    \/ \E solidIndex \in SolidIndices, meshSize \in MeshSizes, kernel \in Kernels :
           Tessellate(solidIndex, meshSize, kernel)

SpecPart == InitPart /\ [][NextPart]_vars

\* Rendering again: a rendered scene gets an Image, a solid's mesh is replaced,
\* the scene is rendered again and the Image is written.
NextRerender ==
    \/ Render(FALSE, Compounds(3, 0, 0, 0, 2), TRUE)
    \/ NewImage
    \/ \E solidIndex \in 0..1, m \in ReplacementMeshes : SetMesh(solidIndex, m)
    \/ Write

SpecRerender == InitEmit /\ [][NextRerender]_vars

(***************************************************************************)
(* Properties of the visibility and depth sort (SpecSort)                  *)
(***************************************************************************)

\* the visible-facet matrix has been assigned to the renderer's planar scene
Sorted == renderer # None /\ renderer.facets # None /\ renderer.facets.visible # None

\* the ( solid index, facet index ) pairs of all facets of a part
facetPairs(part) ==
    UNION { { <<s - 1, f - 1>> : f \in 1..Len(part[s].mesh.normals) } : s \in 1..Len(part) }

\* view . n and view . center of the facet a pair names
facingOf(view, part, p) == Dot(view, part[p[1] + 1].mesh.normals[p[2] + 1])
depthOf(view, part, p) == Dot(view, part[p[1] + 1].mesh.centers[p[2] + 1])

\* C1: determineVisibleFaces returns a ( solid index, facet index ) pair if
\* and only if the facet's normal n has view . n >= 0, every kept pair
\* exactly once, so there are never more columns than the part has facets.
CullingKeepsFacingFacetsOnce ==
    Sorted =>
        LET cols == renderer.facets.visible.columns
            view == renderer.projector.camera.view
        IN  /\ \A p \in facetPairs(scene.part) :
                   InSeq(p, cols) <=> facingOf(view, scene.part, p) >= 0
            /\ \A i \in 1..Len(cols) : cols[i] \in facetPairs(scene.part)
            /\ \A i, j \in 1..Len(cols) : i # j => cols[i] # cols[j]
            /\ Len(cols) <= Cardinality(facetPairs(scene.part))

\* C2: the columns determineVisibleFaces returns are in non-decreasing order
\* of the depth d = view . center, over all solids together.
ColumnsInNonDecreasingDepth ==
    Sorted =>
        LET cols == renderer.facets.visible.columns
            view == renderer.projector.camera.view
        IN  \A i, j \in 1..Len(cols) :
                i < j => depthOf(view, scene.part, cols[i]) <= depthOf(view, scene.part, cols[j])

\* a sort has put facets of two solids at different depths in order
SortedAcrossSolids ==
    /\ Sorted
    /\ LET cols == renderer.facets.visible.columns
           view == renderer.projector.camera.view
       IN  \E i, j \in 1..Len(cols) :
               /\ i < j
               /\ cols[i][1] > cols[j][1]
               /\ depthOf(view, scene.part, cols[i]) < depthOf(view, scene.part, cols[j])

\* C3: the sort is stable: two kept facets of equal depth come out in input
\* order, the lower solid index first and, within a solid, the lower facet
\* index first.
TiesInInputOrder ==
    Sorted =>
        LET cols == renderer.facets.visible.columns
            view == renderer.projector.camera.view
        IN  \A i, j \in 1..Len(cols) :
                (i < j /\ depthOf(view, scene.part, cols[i]) = depthOf(view, scene.part, cols[j]))
                    => \/ cols[i][1] < cols[j][1]
                       \/ cols[i][1] = cols[j][1] /\ cols[i][2] <= cols[j][2]

(***************************************************************************)
(* Properties of shading (SpecShade)                                       *)
(***************************************************************************)

\* the last call was a render() that returned
RenderReturned == renderer # None /\ ret.op = "VirtualRenderer.render" /\ ret.raises = ""

\* C4: with no light in the scene, every facet the rendered planar scene
\* yields has its solid's base colour: red, green, blue and alpha.
UnlitFacetsHaveBaseColor ==
    (RenderReturned /\ Len(scene.lights) = 0) =>
        LET cols  == renderer.facets.visible.columns
            loop  == forFacetIn(renderer.facets, topologies)
        IN  /\ loop.raises = ""
            /\ Len(loop.facets) = Len(cols)
            /\ \A i \in 1..Len(cols) :
                   loop.facets[i].color = scene.part[cols[i][1] + 1].color

\* C5: each of the four RGBA components determineFaceColors produces, for
\* every solid, facet and list of lights, is a whole number in 0..255.
ColorComponentsInRange ==
    RenderReturned =>
        \A s \in 1..Len(renderer.facets.colors) :
            \A f \in 1..Len(renderer.facets.colors[s]) :
                /\ Len(renderer.facets.colors[s][f]) = 4
                /\ \A c \in 1..Len(renderer.facets.colors[s][f]) :
                       renderer.facets.colors[s][f][c] \in 0..255

(***************************************************************************)
(* Properties of the emitted document (SpecEmit)                           *)
(***************************************************************************)

\* the last call was an Image._write() that returned its document
WriteReturned == ret.op = "Image._write" /\ ret.raises = ""

\* C6: the surface group holds exactly one polygon per column of the sorted
\* id matrix, in the same order: the i-th polygon has the 2D points of the
\* vertices of the i-th ( solid, facet ) pair and the fill colour of that
\* pair's column of the solid's colour matrix.
OnePolygonPerSortedColumn ==
    WriteReturned =>
        LET cols     == renderer.facets.visible.columns
            polygons == ret.value.surface
        IN  /\ Len(polygons) = Len(cols)
            /\ \A i \in 1..Len(cols) :
                   LET s   == cols[i][1] + 1
                       f   == cols[i][2] + 1
                       ids == topologies[renderer.facets.topology[s]].base[f]
                       c   == renderer.facets.colors[s][f]
                   IN  /\ polygons[i].type = "POLYGON"
                       /\ polygons[i].points =
                              [k \in 1..Len(ids) |-> renderer.facets.geometry[s][ids[k] + 1]]
                       /\ polygons[i].fill = <<c[1], c[2], c[3]>>

\* a document was written whose surface holds facets of two solids
SurfaceOfTwoSolidsWritten ==
    /\ WriteReturned
    /\ \E i, j \in 1..Len(ret.value.surface) :
           renderer.facets.visible.columns[i][1] # renderer.facets.visible.columns[j][1]

\* the position of an edge class in the draw order HIDDEN_SMOOTH,
\* HIDDEN_SHARP, VISIBLE_SMOOTH, VISIBLE_SHARP, VISIBLE_OUTLINE
drawRank(t) ==
    CASE t = HIDDENSMOOTHWIRE  -> 1
      [] t = HIDDENSHARPWIRE   -> 2
      [] t = VISIBLESMOOTHWIRE -> 3
      [] t = VISIBLESHARPWIRE  -> 4
      [] t = VISIBLEOUTLINE    -> 5

\* C7: the emitted edge groups come in the order HIDDEN_SMOOTH, HIDDEN_SHARP,
\* VISIBLE_SMOOTH, VISIBLE_SHARP, VISIBLE_OUTLINE, whatever the order of the
\* rendered edges and of the registered styles, and a class has a group if and
\* only if it has both rendered edges and a registered style.
EdgeGroupsInDrawOrder ==
    WriteReturned =>
        LET groups == ret.value.wires
        IN  /\ \A i, j \in 1..Len(groups) :
                   i < j => drawRank(groups[i].edgeType) < drawRank(groups[j].edgeType)
            /\ \A t \in EdgeRepresentationType :
                   (\E i \in 1..Len(groups) : groups[i].edgeType = t)
                       <=> /\ \E e \in 1..Len(renderer.edges) : renderer.edges[e].type = t
                           /\ \E l \in 1..Len(image.lineStyles) : image.lineStyles[l].type = t

\* two groups were written, for styles registered in the opposite order, while
\* one class had edges without a style
GroupsWrittenAgainstStyleOrder ==
    /\ WriteReturned
    /\ Len(ret.value.wires) = 2
    /\ Len(image.lineStyles) = 2
    /\ image.lineStyles[1].type = ret.value.wires[2].edgeType
    /\ image.lineStyles[2].type = ret.value.wires[1].edgeType
    /\ \E e \in 1..Len(renderer.edges) :
           \A l \in 1..Len(image.lineStyles) : image.lineStyles[l].type # renderer.edges[e].type

(***************************************************************************)
(* Properties of the renderer's life cycle (Spec)                          *)
(***************************************************************************)

\* C8: a render() that raises leaves the renderer's facets, edges and
\* coordinate system exactly what they were before the call.
RaisingRenderLeavesNoPartialOutput ==
    [][ (renderer # None /\ ret'.op = "VirtualRenderer.render" /\ ret'.raises # "")
            => /\ renderer'.facets = renderer.facets
               /\ renderer'.edges = renderer.edges
               /\ renderer'.coordinatesystem = renderer.coordinatesystem ]_vars

\* C9: a render() uses the camera the scene holds when it is called: its
\* projection, culling and depth order are those of that camera.
RenderUsesCurrentCamera ==
    RenderReturned =>
        LET current == Projector(scene.camera)
        IN  /\ renderer.facets.geometry = projectFacets(current, scene.part).geometry
            /\ renderer.facets.visible.columns \in determineVisibleFaces(current, scene.part)

\* C10: once render() has completed, a change of a source solid's topology
\* through Topology.__setitem__ leaves the facets the planar scene yields
\* unchanged.
PlanarSceneUnaffectedBySetItem ==
    [][ (RenderReturned /\ ret'.op = "Topology.__setitem__")
            => LET before == forFacetIn(renderer.facets, topologies)
                   after  == forFacetIn(renderer'.facets, topologies')
               IN  after.raises = before.raises /\ after.facets = before.facets ]_vars

(***************************************************************************)
(* Properties of the edge classification (SpecEdges)                       *)
(***************************************************************************)

\* the class the groups of each compound of the HLR kernel belong to
classOf ==
    [ OutLineVCompound |-> VISIBLEOUTLINE, OutLineHCompound |-> HIDDENSMOOTHWIRE,
      Rg1LineVCompound |-> VISIBLESMOOTHWIRE, HCompound |-> HIDDENSHARPWIRE,
      VCompound |-> VISIBLESHARPWIRE ]

\* C17: projectCurvesAndEdges returns exactly one edge group for each class
\* whose HLR compound is non-null, holding that compound's edges, and no group
\* for a null compound, which is no error: OutLineVCompound gives the visible
\* outline, OutLineHCompound the hidden smooth, Rg1LineVCompound the visible
\* smooth, HCompound the hidden sharp and VCompound the visible sharp edges;
\* no class appears twice.
OneEdgeGroupPerNonNullCompound ==
    ret.op = "Projector.projectCurvesAndEdges" =>
        /\ (\A c \in DOMAIN classOf : ret.filter[c] = 0) => ret.raises = ""
        /\ ret.raises = "" =>
              LET groups == ret.value.columns
              IN  /\ \A c \in DOMAIN classOf :
                        Cardinality({ i \in 1..Len(groups) :
                                        /\ groups[i].type = classOf[c]
                                        /\ groups[i].wires = ret.filter[c] })
                            = IF ret.filter[c] = 0 THEN 0 ELSE 1
                  /\ \A i, j \in 1..Len(groups) :
                        groups[i].type = groups[j].type => i = j

\* groups were returned for some classes while other compounds were null
SomeCompoundsNull ==
    /\ ret.op = "Projector.projectCurvesAndEdges"
    /\ ret.raises = ""
    /\ ret.filter.HCompound = 0
    /\ ret.filter.VCompound > 0
    /\ Len(ret.value.columns) = 3

(***************************************************************************)
(* Properties of an Image over a renderer that renders again (SpecRerender)*)
(***************************************************************************)

\* C11: nothing is cached across renders: the width, height and geometry
\* translation an Image writes are those of the bounding box of the renderer's
\* most recent render(), also when render() ran after the Image was built.
WrittenSizeIsOfLatestRender ==
    WriteReturned =>
        LET bb == boundingBox(renderer.facets)
        IN  /\ ret.value.width = bb[1][3]
            /\ ret.value.height = bb[2][3]
            /\ ret.value.translate = << RNeg(bb[1][1]), RNeg(bb[2][2]) >>

(***************************************************************************)
(* Properties of the composed scene (Spec)                                 *)
(***************************************************************************)

\* C12: a mesh is immutable after construction: in every reachable state the
\* triangle-only and quad-only sub-mappings of every solid's Topology and the
\* centers and normals tables of its MeshModel are those of the base facet
\* mapping the Topology holds.
DerivedTablesAgreeWithBase ==
    \A s \in 1..Len(scene.part) :
        LET model == scene.part[s].mesh
            topo  == topologies[model.mesh.topology]
            fresh == Topology(topo.base)
        IN  /\ topo.triangles = fresh.triangles
            /\ topo.quadrilaterals = fresh.quadrilaterals
            /\ model.centers = calculateCenters(model.mesh.geometry, fresh)
            /\ model.normals = calculateNormals(model.mesh.geometry, fresh)

(***************************************************************************)
(* Properties of composition (SpecCompose)                                 *)
(***************************************************************************)

\* a vector of numbers of length one
IsUnitVector(v) == (\A i \in 1..3 : ~ isnan(v[i])) /\ Dot(v, v) = 1

\* C13: a Camera built from a view of magnitude zero is an error, so that the
\* camera of a scene, once set, always has a unit vector as its view.
CameraViewIsUnitVector ==
    scene.camera # None => IsUnitVector(scene.camera.view)

\* C14: a vertex collection with zero vertices is rejected in every input
\* form, so that every Geometry that is constructed has at least one vertex
\* column.
GeometryHasAVertex ==
    (ret.op = "Geometry" /\ ret.raises = "") => GeometrySize(ret.value) >= 1

\* C16: whenever the mesher fails inside MeshModelGenerator.generate, for a
\* CADModel as for a Solid and for every size setting, generate raises nothing
\* and returns the mesh of the kernel's own tessellation at tolerance 10.
MesherFailureFallsBackToTessellation ==
    ( /\ ret.op = "MeshModel"
      /\ determineMimMaxElementSize(ret.size, BoundingBoxLengths, ret.kernel).raises = ""
      /\ ret.kernel.mesher = None )
    => (ret.raises = "" /\ ret.value = ret.kernel.tessellate[10])

(***************************************************************************)
(* Properties of the solids of a part (SpecPart)                           *)
(***************************************************************************)

\* the methods of PartRepresentation that take a solid index
IndexedOps ==
    { "PartRepresentation.color", "PartRepresentation.material",
      "PartRepresentation.mesh", "PartRepresentation.tessellate" }

\* no Topology object that exists is changed by the step
HeapKept == \A id \in DOMAIN topologies : topologies'[id] = topologies[id]

\* the step changes no solid but, at most, the one at position p
OnlySolidChanged(p) ==
    /\ Len(scene'.part) = Len(scene.part)
    /\ \A q \in 1..Len(scene.part) : q # p => scene'.part[q] = scene.part[q]
    /\ HeapKept

\* C15: color, material, mesh and tessellate called with a solid index outside
\* 0..n-1 raise and leave every solid unchanged; called with an index inside
\* 0..n-1 they change only the addressed solid.
IndexOutsideZeroToNRaises ==
    [][ ret'.op \in IndexedOps =>
            LET n == Len(scene.part)
                i == ret'.solidIndex
            IN  IF i \notin 0..(n - 1)
                THEN ret'.raises # "" /\ scene'.part = scene.part /\ HeapKept
                ELSE OnlySolidChanged(i + 1) ]_vars

\* C15, amended: the four methods raise and leave every solid unchanged for a
\* solid index outside -n..n-1; for an index inside -n..n-1 they change only
\* the addressed solid, which for a negative index i is solid n + i.
IndexOutsideMinusNToNRaises ==
    [][ ret'.op \in IndexedOps =>
            LET n == Len(scene.part)
                i == ret'.solidIndex
            IN  IF i \notin (0 - n)..(n - 1)
                THEN ret'.raises # "" /\ scene'.part = scene.part /\ HeapKept
                ELSE OnlySolidChanged(IF i < 0 THEN n + i + 1 ELSE i + 1) ]_vars

\* a call with a negative index has returned and changed the last solid
NegativeIndexAccepted ==
    /\ ret.op \in IndexedOps
    /\ ret.solidIndex = -1
    /\ ret.raises = ""
    /\ scene.part[Len(scene.part)].color # RGBA(100, 100, 100, 255)

projectedVertices ==
    UNION { {renderer.facets.geometry[s][j] : j \in 1..Len(renderer.facets.geometry[s])}
            : s \in 1..Len(renderer.facets.geometry) }

\* C20: under the transform of the geometry group every projected mesh vertex
\* is drawn in the positive image quadrant, its x in [0, x_extent] and its y in
\* [0, y_extent] of the bounding box of the rendered facets, and a larger model
\* y is drawn at a smaller image y.
VerticesInPositiveQuadrant ==
    WriteReturned =>
        LET bb == boundingBox(renderer.facets)
            at(p) == transformed(RVec(ret.value.geomScale), ret.value.translate, RVec(p))
        IN  /\ \A p \in projectedVertices :
                  /\ RLeq(Q(0), at(p)[1]) /\ RLeq(at(p)[1], bb[1][3])
                  /\ RLeq(Q(0), at(p)[2]) /\ RLeq(at(p)[2], bb[2][3])
            /\ \A p, q \in projectedVertices : p[2] > q[2] => RLess(at(p)[2], at(q)[2])

(***************************************************************************)
(* Properties of the written coordinate system (SpecFrame)                 *)
(***************************************************************************)

\* the projected direction of the axis with the given label
axisOf(label) ==
    CASE label = "x" -> renderer.coordinatesystem.x
      [] label = "y" -> renderer.coordinatesystem.y
      [] label = "z" -> renderer.coordinatesystem.z

\* C18: the coordinate-system group holds one arrow for each axis whose
\* projected direction has no nan component and none for an axis with a nan
\* component, at most three arrows; without a coordinate-system style no
\* coordinate-system group is written at all.
ArrowPerAxisWithoutNan ==
    WriteReturned =>
        IF image.coordStyle = None
        THEN ret.value.coordinateSystem = <<>>
        ELSE /\ Len(ret.value.coordinateSystem) = 1
             /\ LET arrows == ret.value.coordinateSystem[1].arrows
                IN  /\ Len(arrows) <= 3
                    /\ \A label \in {"x", "y", "z"} :
                          Cardinality({i \in 1..Len(arrows) : arrows[i].label = label})
                              = IF \E i \in 1..2 : isnan(axisOf(label)[i]) THEN 0 ELSE 1

\* a coordinate system with a nan axis was written with two arrows
NanAxisSkipped ==
    /\ WriteReturned
    /\ image.coordStyle # None
    /\ isnan(renderer.coordinatesystem.z[1])
    /\ Len(ret.value.coordinateSystem[1].arrows) = 2

(***************************************************************************)
(* Properties of the layout of the document (SpecLayout)                   *)
(***************************************************************************)

\* the margin the coordinate system takes on each side: twice the size of the
\* coordinate-system style when one is set, else 0
coordMargin == IF image.coordStyle # None THEN 2 * image.coordStyle.size ELSE 0

\* C21: the written width is ( x_extent * zoom.x + 2 * margin.x +
\* 2 * coord_margin ) * scale.x of the bounding box the Image holds, and the
\* height the same with y.
WidthOfZoomedExtent ==
    WriteReturned =>
        \A a \in 1..2 :
            (IF a = 1 THEN ret.value.width ELSE ret.value.height)
                = RMul(RAdd(RMul(image.boundingBox[a][3], image.zoom[a]),
                            Q(2 * image.margin[a] + 2 * coordMargin)),
                       image.scale[a])

\* C21, amended: the written width is ( int( x_extent * zoom.x ) +
\* 2 * margin.x + 2 * coord_margin ) * scale.x, where int drops the fraction of
\* the zoomed extent, and the height the same with y.
WidthOfTruncatedZoomedExtent ==
    WriteReturned =>
        \A a \in 1..2 :
            (IF a = 1 THEN ret.value.width ELSE ret.value.height)
                = RMul(Q(int(RMul(image.boundingBox[a][3], image.zoom[a]))
                         + 2 * image.margin[a] + 2 * coordMargin),
                       image.scale[a])

\* an image was written whose zoomed extent is no whole number, with margins,
\* a scale and a coordinate-system style set
WrittenWithFractionalExtent ==
    /\ WriteReturned
    /\ ~ IsInt(RMul(image.boundingBox[2][3], image.zoom[2]))
    /\ image.margin # <<0, 0>>
    /\ image.scale # <<Q(1), Q(1)>>
    /\ image.coordStyle # None

(***************************************************************************)
(* Properties of the written polygons (SpecEmit)                           *)
(***************************************************************************)

\* C22: whenever the facets of the planar scene can be iterated, _write()
\* returns, with or without a face style, and the polygon of every facet is
\* filled with the facet's colour at the opacity alpha / 255 and, when a face
\* style is set, stroked with the style's colour and width and its dash
\* array, ( 1, 0 ) when the style has none.
PolygonsFilledAndStrokedByFaceStyle ==
    ret.op = "Image._write" =>
        LET facets == forFacetIn(renderer.facets, topologies)
        IN  facets.raises = "" =>
                /\ ret.raises = ""
                /\ Len(ret.value.surface) = Len(facets.facets)
                /\ \A i \in 1..Len(facets.facets) :
                       LET p == ret.value.surface[i]
                           f == facets.facets[i]
                       IN  /\ p.fill = rgb(f.color)
                           /\ p.fillopacity = Frac(f.color.a, 255)
                           /\ image.faceStyle # None =>
                                  /\ p.stroke = rgb(image.faceStyle.color)
                                  /\ p.strokewidth = image.faceStyle.width
                                  /\ p.strokedasharray =
                                         IF image.faceStyle.dash # None
                                         THEN image.faceStyle.dash.values ELSE <<1, 0>>

(***************************************************************************)
(* The depth order of two solids (SpecSort)                                *)
(***************************************************************************)

\* the part of two single-triangle solids in the planes z = 0 and z = 10
twoTriangles == << MeshAt(0, <<tA>>), MeshAt(10, <<tA>>) >>

\* the scene is that of twoTriangles under a camera of the given view, and
\* render() has stored what determineVisibleFaces returned
sortedUnder(view) ==
    /\ scene.part = PlainPart(twoTriangles)
    /\ topologies = HeapOf(twoTriangles)
    /\ scene.camera.view = view
    /\ renderer.facets # None
    /\ renderer.facets.visible # None

\* C23: for the two single-triangle solids at z = 0 and z = 10,
\* determineVisibleFaces returns under the view ( 0, 0, 1 ) the z = 0 triangle
\* first and the z = 10 triangle second, and under the view ( 0, 0, -1 ) the
\* same two triangles in the reverse order.
NegatedViewReversesOrder ==
    /\ sortedUnder(<<0, 0, 1>>) =>
           renderer.facets.visible.columns = << <<0, 0>>, <<1, 0>> >>
    /\ sortedUnder(<<0, 0, -1>>) =>
           renderer.facets.visible.columns = << <<1, 0>>, <<0, 0>> >>

(***************************************************************************)
(* Properties of the normals of a MeshModel (SpecMesh)                     *)
(***************************************************************************)

\* n is the vector v normalised: the zero vector for v = 0, else the vector of
\* length 1 in the direction of v
IsNormalized(n, v) ==
    IF v = <<0, 0, 0>> THEN n = <<0, 0, 0>>
    ELSE Cross(n, v) = <<0, 0, 0>> /\ Dot(n, v) > 0 /\ Dot(n, n) = 1

\* the normalised cross product ( v1 - v0 ) x ( v2 - v1 ) of a triangle
unitNormal(p, tri) ==
    cNormalizeColumn(Cross(VecSub(p[tri[2] + 1], p[tri[1] + 1]),
                           VecSub(p[tri[3] + 1], p[tri[2] + 1])))

\* C24: the stored normal of every quadrilateral is the normalised sum of the
\* normals of its sub-triangles ( 0, 1, 2 ) and ( 0, 2, 3 ), and the stored
\* normal of every triangle is its normalised cross product
\* ( v1 - v0 ) x ( v2 - v1 ).
QuadNormalIsNormalizedSum ==
    ret.op = "MeshModel( Mesh )" =>
        \A f \in 1..Len(ret.topology) :
            LET ids == ret.topology[f]
                p   == ret.geometry
                n   == ret.value.normals[f]
            IN  IF Len(ids) = 3
                THEN n = unitNormal(p, ids)
                ELSE IsNormalized(n, VecAdd(unitNormal(p, <<ids[1], ids[2], ids[3]>>),
                                            unitNormal(p, <<ids[1], ids[3], ids[4]>>)))

(***************************************************************************)
(* Properties of back-lit facets (SpecShade)                               *)
(***************************************************************************)

\* the light source lies behind facet f of the solid: its direction from the
\* centre of the facet points away from the normal, l . n < 0
backLit(solid, f, source) ==
    Dot(VecSub(source.position, solid.mesh.centers[f]), solid.mesh.normals[f]) < 0

\* what a light adds to the ( r, g, b ) of a facet when a light behind the
\* facet adds its share of the ambient term and neither a diffuse nor a
\* specular term
termWithoutBackLight(view, solid, f, source, nSources) ==
    IF backLit(solid, f, source)
    THEN [c \in 1..3 |-> RMul(RMul(Frac(1, nSources), Q(rgb(solid.color)[c])),
                              solid.material.ka)]
    ELSE lightTerm(view, solid, f, source, nSources)

RECURSIVE sumWithoutBackLight(_, _, _, _, _)
sumWithoutBackLight(view, solid, f, lights, k) ==
    IF k = 0 THEN RVec(<<0, 0, 0>>)
    ELSE LET acc == sumWithoutBackLight(view, solid, f, lights, k - 1)
             t   == termWithoutBackLight(view, solid, f, lights[k], Len(lights))
         IN  [c \in 1..3 |-> RAdd(acc[c], t[c])]

\* C25: no back-lit highlights: the colour render() stores for a facet is the
\* one in which every light behind the facet ( l . n < 0 ) adds no specular
\* term.
NoBackLitHighlights ==
    (RenderReturned /\ Len(scene.lights) > 0) =>
        \A s \in 1..Len(scene.part) :
            \A f \in 1..Len(scene.part[s].mesh.normals) :
                LET acc == sumWithoutBackLight(renderer.projector.camera.view, scene.part[s],
                                               f, scene.lights, Len(scene.lights))
                IN  \A c \in 1..3 : renderer.facets.colors[s][f][c] = clampAndRound(acc[c])

(***************************************************************************)
(* Properties of loops over the planar scene (SpecIterate)                 *)
(***************************************************************************)

\* the facets of the columns of the sorted id matrix, in painter order
sortedFacets ==
    LET cols == renderer.facets.visible.columns
    IN  [i \in 1..Len(cols) |-> facet(renderer.facets, topologies, cols[i][1], cols[i][2]).value]

\* C26: each of two loops over the same PlanarMeshRepresentation, interleaved
\* or not, is yielded the facet of every column of the sorted id matrix once
\* and in painter order: what a loop has been yielded so far is the facets of
\* the first columns, and a loop that has ended was yielded all of them.
LoopsYieldEveryFacetInOrder ==
    \A l \in LoopIds :
        /\ loops[l].state # "none" =>
               /\ Len(loops[l].facets) <= Len(sortedFacets)
               /\ loops[l].facets = SubSeq(sortedFacets, 1, Len(loops[l].facets))
        /\ loops[l].state = "done" => loops[l].facets = sortedFacets

(***************************************************************************)
(* Properties of the lookup of a facet (SpecFacet)                         *)
(***************************************************************************)

\* the pair ( meshId, facetId ) is a column of the sorted id matrix
IsSortedColumn(planar, meshId, facetId) ==
    /\ planar # None
    /\ planar.visible # None
    /\ \E i \in 1..Len(planar.visible.columns) :
           planar.visible.columns[i] = <<meshId, facetId>>

\* C27: PlanarMeshRepresentation.facet( meshId, facetId ) returns a facet only
\* when the pair is a column of the sorted visible ids; for every other pair,
\* a facet culled in solid meshId whose index is visible in another solid
\* included, it raises.
FacetReturnedOnlyForSortedColumn ==
    (ret.op = "PlanarMeshRepresentation.facet" /\ ret.raises = "")
        => IsSortedColumn(renderer.facets, ret.meshId, ret.facetId)

(***************************************************************************)
(* Properties of Image.boundingBox (SpecLayout)                            *)
(***************************************************************************)

\* C28: Image.boundingBox() is a pure query: a call leaves the Image as it
\* was, its stored bounding box, and with it size, width, height and
\* translation, and so returns the same matrix however often it is called.
BoundingBoxIsPureQuery ==
    [][ret'.op = "Image.boundingBox" =>
            /\ image' = image
            /\ size(image') = size(image)
            /\ width(image') = width(image)
            /\ height(image') = height(image)
            /\ translate(image') = translate(image)
            /\ imageBoundingBox(image').value = ret'.value]_vars

(***************************************************************************)
(* Properties of the order of the stages (SpecStages)                      *)
(***************************************************************************)

\* a call of render() has run to its end on the renderer: the coordinate
\* system is the last attribute render() assigns, and nothing unsets it
renderCompleted == renderer # None /\ renderer.coordinatesystem # None

\* C29: the stages are order-enforced: a renderer exists only for a scene
\* with a camera, an Image exists only for a renderer on which a render()
\* has completed, and so every document written comes from a scene with a
\* camera and a completed render; the constructions raise otherwise.
StagesAreOrderEnforced ==
    /\ renderer # None => scene.camera # None
    /\ (ret.op = "VirtualRenderer" /\ scene.camera = None) => ret.raises # ""
    /\ image # None => renderCompleted
    /\ (ret.op = "Image" /\ ~ renderCompleted) => ret.raises # ""
    /\ (ret.op = "Image._write" /\ ret.raises = "") => (scene.camera # None /\ renderCompleted)

(***************************************************************************)
(* Properties of the mesher's life cycle (SpecCompose)                     *)
(***************************************************************************)

\* C30: every call of MeshModelGenerator.generate leaves the mesher
\* finalized: the initialize at its start is followed by exactly one finalize
\* before generate returns or raises, whether the mesher succeeds, the
\* fallback is taken or the element sizes cannot be determined.
GenerateLeavesMesherFinalized ==
    ret.op = "MeshModel" => ret.gmsh = <<"initialize", "finalize">>

====
